---------------------------- MODULE Spec2Model ----------------------------
(***************************************************************************)
(* A model of the embedded grid survival game of src/scripts/index.js      *)
(* (class VampireGame and its entities) together with the part of the      *)
(* browser it talks to: the frame scheduler (requestAnimationFrame), the   *)
(* clock (performance.now), the key listeners and the drawing surface.     *)
(*                                                                         *)
(* Numbers.  The program computes with IEEE doubles; the model computes    *)
(* with fixed-point integers:                                              *)
(*   - a position is held in thousandths of an arena cell (15.5 is 15500), *)
(*   - a time is held in whole milliseconds,                               *)
(*   - a direction is held in ten-thousandths (1 is 10000, 1/sqrt 2 is     *)
(*     7071),                                                              *)
(*   - a projectile velocity is held in millionths of a cell per ms.       *)
(* Every division rounds to the nearest integer.                           *)
(***************************************************************************)
EXTENDS Integers, Sequences, FiniteSets, TLC

(***************************************************************************)
(* Game constants, src/scripts/index.js lines 296-306, and the literals    *)
(* the methods use.  Speeds are in thousandths of a cell per millisecond.  *)
(***************************************************************************)
CANVAS_WIDTH == 30
CANVAS_HEIGHT == 15
PLAYER_SPEED == 8
ENEMY_SPEED == 2
PROJECTILE_SPEED == 30
ATTACK_COOLDOWN == 350
PLAYER_MAX_HP == 100
ENEMY_DAMAGE == 10
WAVE_DURATION == 20000
BASE_SPAWN_RATE == 2000
MIN_SPAWN_RATE == 500
INVINCIBLE_MS == 500
PROJECTILE_LIFETIME == 3000
KILL_REWARD == 10
GEM_VALUE == 10
SPAWN_RATE_STEP == 150
BASE_MAX_ENEMIES == 3
MAX_ENEMIES_STEP == 2

CHAR_EMPTY == ""
CHAR_PLAYER == "vampire"
CHAR_ENEMY == "zombie"
CHAR_PROJECTILE == "fire"
CHAR_XP == "gem"

(***************************************************************************)
(* Fixed-point arithmetic.                                                 *)
(***************************************************************************)
Cells(n) == n * 1000
Dir(n) == n * 10000

Abs(a) == IF a < 0 THEN -a ELSE a
Max(a, b) == IF a >= b THEN a ELSE b
Min(a, b) == IF a <= b THEN a ELSE b

\* a / b for b > 0, rounded to the nearest integer (halves away from zero)
RoundDiv(a, b) ==
    IF a >= 0 THEN (a + b \div 2) \div b ELSE -(((-a) + b \div 2) \div b)

\* Math.floor of a position held in thousandths: the grid cell index
Floor(v) == v \div 1000

\* Math.ceil(a / b) for b > 0
CeilDiv(a, b) == -((-a) \div b)

RECURSIVE SqrtSearch(_, _, _)
SqrtSearch(n, lo, hi) ==
    IF hi - lo <= 1 THEN lo
    ELSE LET mid == (lo + hi) \div 2
         IN IF mid * mid <= n THEN SqrtSearch(n, mid, hi)
            ELSE SqrtSearch(n, lo, mid)

\* the root found, rounded to the nearest integer
RoundRoot(n, r) == IF n - r * r > r THEN r + 1 ELSE r

\* Math.sqrt, rounded to the nearest integer, for 0 <= n < 2^31
Sqrt(n) == RoundRoot(n, SqrtSearch(n, 0, 46341))

(***************************************************************************)
(* Entities (class Entity and its subclasses).  JavaScript objects have    *)
(* an identity; the model gives every hostile, projectile and pickup an    *)
(* id field that stands for it.                                            *)
(***************************************************************************)
NewPlayer(x, y) ==
    [x |-> x, y |-> y, char |-> CHAR_PLAYER, active |-> TRUE,
     hp |-> PLAYER_MAX_HP, lastAttack |-> 0,
     lastDirection |-> [x |-> Dir(1), y |-> 0],
     invincible |-> FALSE, invincibleTimer |-> 0]

NewEnemy(id, x, y) ==
    [id |-> id, x |-> x, y |-> y, char |-> CHAR_ENEMY, active |-> TRUE, hp |-> 1]

\* Projectile.constructor: the launch vector is normalised and scaled to
\* PROJECTILE_SPEED; a zero vector launches to the right.
Launched(id, x, y, vx, vy, len) ==
    [id |-> id, x |-> x, y |-> y, char |-> CHAR_PROJECTILE, active |-> TRUE,
     vx |-> IF len > 0 THEN RoundDiv(vx * PROJECTILE_SPEED * 1000, len)
            ELSE PROJECTILE_SPEED * 1000,
     vy |-> IF len > 0 THEN RoundDiv(vy * PROJECTILE_SPEED * 1000, len)
            ELSE 0,
     lifetime |-> PROJECTILE_LIFETIME]

NewProjectile(id, x, y, vx, vy) ==
    Launched(id, x, y, vx, vy, Sqrt(vx * vx + vy * vy))

NewXPGem(id, x, y) ==
    [id |-> id, x |-> x, y |-> y, char |-> CHAR_XP, active |-> TRUE,
     value |-> GEM_VALUE]

\* Entity.getGridPos
getGridPos(e) == [x |-> Floor(e.x), y |-> Floor(e.y)]

(***************************************************************************)
(* Player                                                                  *)
(***************************************************************************)
\* the input vector of Player.handleInput, before normalisation: keys is
\* the set of key codes whose entry in this.keys is true
InputVector(keys) ==
    [x |-> (IF "KeyD" \in keys \/ "ArrowRight" \in keys THEN 1 ELSE 0)
           - (IF "KeyA" \in keys \/ "ArrowLeft" \in keys THEN 1 ELSE 0),
     y |-> (IF "KeyS" \in keys \/ "ArrowDown" \in keys THEN 1 ELSE 0)
           - (IF "KeyW" \in keys \/ "ArrowUp" \in keys THEN 1 ELSE 0)]

\* "Normalize diagonal movement": the vector in ten-thousandths
Normalize(v, len) ==
    IF v.x # 0 /\ v.y # 0
    THEN [x |-> RoundDiv(Dir(v.x) * Dir(1), len),
          y |-> RoundDiv(Dir(v.y) * Dir(1), len)]
    ELSE [x |-> Dir(v.x), y |-> Dir(v.y)]

VectorLength(v) == Sqrt(Dir(v.x) * Dir(v.x) + Dir(v.y) * Dir(v.y))

NormalizedInput(keys) == Normalize(InputVector(keys), VectorLength(InputVector(keys)))

\* a faulty variant: a clamp with no upper limit
ClampX_NoUpper(x) == Max(0, x)

\* "Clamp to bounds"
ClampX(x) == Max(0, Min(Cells(CANVAS_WIDTH - 1), x))
ClampY(y) == Max(0, Min(Cells(CANVAS_HEIGHT - 1), y))

\* a faulty variant: a facing that follows the input even when it is zero
MovePlayer_FaceAlways(p, d, dt) ==
    [p EXCEPT !.x = ClampX(@ + RoundDiv(d.x * PLAYER_SPEED * dt, Dir(1))),
              !.y = ClampY(@ + RoundDiv(d.y * PLAYER_SPEED * dt, Dir(1))),
              !.lastDirection = d]

\* Player.handleInput(keys, dt)
\* the player moved along d, a direction in ten-thousandths
MovePlayer(p, d, dt) ==
    [p EXCEPT !.x = ClampX(@ + RoundDiv(d.x * PLAYER_SPEED * dt, Dir(1))),
              !.y = ClampY(@ + RoundDiv(d.y * PLAYER_SPEED * dt, Dir(1))),
              !.lastDirection = IF d.x # 0 \/ d.y # 0 THEN d ELSE @]

handleInput(p, keys, dt) == MovePlayer(p, NormalizedInput(keys), dt)

\* Player.update(dt): the invincibility frames
Player_update(p, dt) ==
    IF p.invincible
    THEN [p EXCEPT !.invincibleTimer = @ - dt,
                   !.invincible = IF p.invincibleTimer - dt <= 0 THEN FALSE ELSE TRUE]
    ELSE p

\* a faulty variant: damage that gives no invincibility
Player_takeDamage_NoGrace(p, amount) ==
    IF p.invincible THEN p ELSE [p EXCEPT !.hp = @ - amount]

\* a faulty variant: damage that ignores the invincibility flag
Player_takeDamage_Always(p, amount) ==
    [p EXCEPT !.hp = @ - amount,
              !.invincible = TRUE,
              !.invincibleTimer = INVINCIBLE_MS]

\* Player.takeDamage(amount): the player after the call; the call returns
\* true exactly when the player was not invincible
Player_takeDamage(p, amount) ==
    IF p.invincible THEN p
    ELSE [p EXCEPT !.hp = @ - amount,
                   !.invincible = TRUE,
                   !.invincibleTimer = INVINCIBLE_MS]

\* Player.canAttack(now)
canAttack(p, now) == now - p.lastAttack >= ATTACK_COOLDOWN

\* a faulty variant: a projectile launched from the player's own position
attack_FromPlayer(p, id) ==
    NewProjectile(id, p.x, p.y, p.lastDirection.x, p.lastDirection.y)

\* Player.attack(now): the projectile it returns
attack(p, id) ==
    NewProjectile(id,
                  p.x + RoundDiv(p.lastDirection.x * 500, Dir(1)),
                  p.y + RoundDiv(p.lastDirection.y * 500, Dir(1)),
                  p.lastDirection.x, p.lastDirection.y)

(***************************************************************************)
(* Enemy                                                                   *)
(***************************************************************************)
\* Enemy.update(dt, player): seek the player, then clamp
\* the enemy moved by dt along (dx, dy), a vector of length dist
SeekPlayer(e, dt, dx, dy, dist) ==
    IF dx * dx + dy * dy > 500 * 500
    THEN [e EXCEPT !.x = ClampX(@ + RoundDiv(dx * ENEMY_SPEED * dt, dist)),
                   !.y = ClampY(@ + RoundDiv(dy * ENEMY_SPEED * dt, dist))]
    ELSE [e EXCEPT !.x = ClampX(@), !.y = ClampY(@)]

Distance(dx, dy) == Sqrt(dx * dx + dy * dy)

Enemy_update(e, dt, p) ==
    SeekPlayer(e, dt, p.x - e.x, p.y - e.y, Distance(p.x - e.x, p.y - e.y))

\* a faulty variant: a hostile no damage deactivates
Enemy_takeDamage_Survives(e) == [e EXCEPT !.hp = @ - 1]

\* Enemy.takeDamage(): the enemy after the call; the call returns true
\* exactly when the result is not active
Enemy_takeDamage(e) ==
    [e EXCEPT !.hp = @ - 1, !.active = IF e.hp - 1 <= 0 THEN FALSE ELSE @]

(***************************************************************************)
(* Projectile                                                              *)
(***************************************************************************)
\* a faulty variant: a projectile that nothing deactivates
Projectile_update_Forever(q, dt) ==
    [q EXCEPT !.x = @ + RoundDiv(q.vx * dt, 1000),
              !.y = @ + RoundDiv(q.vy * dt, 1000),
              !.lifetime = @ - dt]

\* Projectile.update(dt)
Projectile_update(q, dt) ==
    LET nx == q.x + RoundDiv(q.vx * dt, 1000)
        ny == q.y + RoundDiv(q.vy * dt, 1000)
        nl == q.lifetime - dt
    IN [q EXCEPT !.x = nx, !.y = ny, !.lifetime = nl,
                 !.active = IF \/ nx < 0 \/ nx >= Cells(CANVAS_WIDTH)
                               \/ ny < 0 \/ ny >= Cells(CANVAS_HEIGHT)
                               \/ nl <= 0
                            THEN FALSE ELSE @]

(***************************************************************************)
(* The state.                                                              *)
(*   game   the VampireGame instance: its fields, named as in the source   *)
(*          (animationId 0 is null; keys is the set of codes mapped to     *)
(*          true; prevGrid holds the non-empty cells only, every other     *)
(*          cell being the empty cell)                                     *)
(*   dom    the browser: raf, the ids of the frame callbacks that are      *)
(*          requested and not yet run or cancelled; the key listeners;     *)
(*          the cells of the drawing surface (non-empty ones only); the    *)
(*          HUD texts and the overlays; present, which of the elements the *)
(*          page looks up exist; failed, a method has thrown a TypeError   *)
(*          that nothing caught; win, the state of the WindowManager of    *)
(*          the game window; stars, the starfield (isAnimating,            *)
(*          animationFrameId, and frames, the handles of its frame         *)
(*          callbacks that are requested and not yet run or cancelled);    *)
(*          hidden, document.hidden                                        *)
(*   clock  performance.now()                                              *)
(*   hist   history: what the run did, for stating properties (destroyedIn *)
(*          is the state destroy() was last called in, halted tells that   *)
(*          start() has not been called since; runKills and runCollected   *)
(*          count the kills and the collected pickups of the run; winOp is *)
(*          the method of the window manager called last); the             *)
(*          program never reads it, except nextId, the source of entity    *)
(*          identities                                                     *)
(***************************************************************************)
VARIABLES game, dom, clock, hist

vars == <<game, dom, clock, hist>>

World == [g |-> game, d |-> dom, clock |-> clock, h |-> hist]

Commit(w) ==
    /\ game' = w.g
    /\ dom' = w.d
    /\ clock' = w.clock
    /\ hist' = w.h

EmptyCell == [char |-> CHAR_EMPTY, class |-> "game-empty"]

\* hist.last is what the last executed frame did:
\*   dt           its dt
\*   hp0, hp1     the player's hp before and after it
\*   score0, score1  the score before and after it
\*   hitAge       the dt accumulated since the player last lost hp, this
\*                frame's included (-1: no hp lost yet in this run)
\*   contact      the Player x Hostile check found a hostile in reach
\*   moved        where the entities were when the movement phase was done
\*   atCheck      the hostiles when the Projectile x Hostile check began
\*   atCheckHp    the hp of the player then
\*   atGems       the score and the number of pickups when the
\*                Player x Pickup check began
\*   hits         the hits of projectiles on hostiles, in their order: the
\*                projectile, the hostile, its hp before and after
\*   kills        the hostiles that died: id, position, projectile
\*   killScore, gemsSpawned, collected   what the collisions awarded
\*   removed      the ids the cleanup dropped
\*   fired, rolled, spawned, ended   an attack, a wave rollover, a spawn,
\*                the end of the run happened
\*   shotGap      when it fired: the sum of the dt of the frames since the
\*                launch before it, this frame included (-1 at the first
\*                launch of a run)
\*   sinceResume  the ms since resume() was called, when this is the frame
\*                that call has requested (-1 otherwise)
\*   pausedFor    the ms the game had been paused for when it was called
\*   pre          the timers, the player, the hostiles and the pickups before
\*                the frame; born and bornAt, the pickups the frame before
\*                it dropped and where the player was at its checks
\*   gate         what the spawn check found: the spawn timer, the spawn
\*                interval, the length of the hostile set, the number of
\*                active hostiles in it and twice the hostile cap
\*   phases       the phases the frame went through, in their order
\*   checks       the collision checks it made, in their order
\* and before the first frame:
NoTick ==
    [phases |-> <<>>, checks |-> <<>>,
     dt |-> 0, hp0 |-> 0, hp1 |-> 0, score0 |-> 0, score1 |-> 0,
     sinceResume |-> -1, pausedFor |-> 0,
     pre |-> [waveTimer |-> 0, spawnTimer |-> 0, invincible |-> FALSE,
              invincibleTimer |-> 0, x |-> 0, y |-> 0, enemies |-> <<>>,
              gems |-> <<>>, born |-> <<>>, bornAt |-> <<>>],
     gate |-> [timer |-> 0, rate |-> 0, length |-> 0, active |-> 0, cap |-> 0],
     hitAge |-> -1, contact |-> FALSE,
     moved |-> [player |-> <<>>, enemies |-> <<>>, projectiles |-> <<>>],
     atCheck |-> <<>>, atCheckHp |-> 0, atGems |-> [score |-> 0, gems |-> 0],
     hits |-> <<>>, kills |-> <<>>, killScore |-> 0,
     gemsSpawned |-> <<>>, collected |-> 0, removed |-> {},
     fired |-> FALSE, shotGap |-> -1, rolled |-> FALSE, spawned |-> FALSE, ended |-> FALSE]

\* hist.render is what the last render did:
\*   before, grid  the surface before it and the frame it built
\*   writes        the cells it wrote
\*   occ, shown    the entities with their glyphs and cells, and whether
\*                 the player was drawn
\*   prevOcc, prevShown  the same at the render before, on the same grid
\* and on a grid that was just built, where NoOccupancy stands for the render
\* before:
NoOccupancy == {[id |-> -1, char |-> CHAR_EMPTY, cell |-> [x |-> -1, y |-> -1]]}

NoRender ==
    [before |-> {}, grid |-> {}, writes |-> {}, occ |-> NoOccupancy,
     shown |-> TRUE, prevOcc |-> NoOccupancy, prevShown |-> TRUE]

\* history: the frame goes through a phase
Phase(w, name) == [w EXCEPT !.h.last.phases = Append(@, name)]

(***************************************************************************)
(* Rendering: VampireGame.initGrid, render, updateHUD                      *)
(***************************************************************************)
InGrid(pos) ==
    /\ pos.x >= 0 /\ pos.x < CANVAS_WIDTH
    /\ pos.y >= 0 /\ pos.y < CANVAS_HEIGHT

SeqRange(s) == {s[i] : i \in 1..Len(s)}

\* the cells one layer paints
Layer(entities, class) ==
    {[x |-> getGridPos(e).x, y |-> getGridPos(e).y, char |-> e.char, class |-> class] :
        e \in {f \in entities : InGrid(getGridPos(f))}}

\* painting layer above over what is already painted
Paint(below, above) ==
    above \cup {c \in below : \A a \in above : a.x # c.x \/ a.y # c.y}

\* grid[y][x] of a frame held as its non-empty cells
CellAt(frame, x, y) ==
    IF \E c \in frame : c.x = x /\ c.y = y
    THEN LET c == CHOOSE c \in frame : c.x = x /\ c.y = y
         IN [char |-> c.char, class |-> c.class]
    ELSE EmptyCell

Positions(frame) == {[x |-> c.x, y |-> c.y] : c \in frame}

\* "Blink when invincible"
showPlayer(p, now) == (~p.invincible) \/ ((now \div 100) % 2 = 0)

\* a faulty variant: a render that draws the player first
BuildGrid_PlayerFirst(g, now) ==
    Paint(Paint(Paint(IF showPlayer(g.player, now)
                      THEN Layer({g.player}, "game-player") ELSE {},
                      Layer(SeqRange(g.xpGems), "game-xp")),
                Layer(SeqRange(g.projectiles), "game-projectile")),
          Layer(SeqRange(g.enemies), "game-enemy"))

\* the current frame grid that render builds
BuildGrid(g, now) ==
    Paint(Paint(Paint(Layer(SeqRange(g.xpGems), "game-xp"),
                      Layer(SeqRange(g.projectiles), "game-projectile")),
                Layer(SeqRange(g.enemies), "game-enemy")),
          IF showPlayer(g.player, now) THEN Layer({g.player}, "game-player") ELSE {})

\* a faulty variant: an update that writes every painted cell
ChangedCells_All(grid, prev) == Positions(grid) \cup Positions(prev)

\* "Only update if cell changed": the cells the selective update writes
ChangedCells(grid, prev) ==
    {pos \in Positions(grid) \cup Positions(prev) :
        CellAt(grid, pos.x, pos.y) # CellAt(prev, pos.x, pos.y)}

\* a frame after the cells at `where` were set to what `grid` holds there
WriteCells(frame, grid, where) ==
    {c \in frame : [x |-> c.x, y |-> c.y] \notin where}
        \cup {c \in grid : [x |-> c.x, y |-> c.y] \in where}

\* history: every entity with its glyph and its grid cell
Occupancy(g) ==
    {[id |-> 0, char |-> g.player.char, cell |-> getGridPos(g.player)]}
        \cup {[id |-> e.id, char |-> e.char, cell |-> getGridPos(e)] :
                 e \in SeqRange(g.enemies) \cup SeqRange(g.projectiles)
                        \cup SeqRange(g.xpGems)}

\* VampireGame.render
\* the selective update of render: the cells at changed are written
SelectiveUpdate(w, grid, changed) ==
    [w EXCEPT !.g.prevGrid = WriteCells(@, grid, changed),
              !.d.surface = WriteCells(@, grid, changed),
              !.h.render = [before |-> w.d.surface, grid |-> grid,
                            writes |-> changed,
                            occ |-> Occupancy(w.g),
                            shown |-> showPlayer(w.g.player, w.clock),
                            prevOcc |-> w.h.render.occ,
                            prevShown |-> w.h.render.shown]]

\* render, once the current frame grid is built
DrawGrid(w, grid) == SelectiveUpdate(w, grid, ChangedCells(grid, w.g.prevGrid))

render(w) == DrawGrid(w, BuildGrid(w.g, w.clock))

\* VampireGame.initGrid: the surface is rebuilt with every cell empty;
\* this.canvas.innerHTML = html throws when the canvas element is null
initGrid(w) ==
    IF w.d.present.canvas
    THEN [w EXCEPT !.g.prevGrid = {}, !.d.surface = {},
                   !.h.render = NoRender]
    ELSE [w EXCEPT !.g.prevGrid = {}, !.d.failed = TRUE]

\* a faulty variant: the hp as a percentage
hpBlocks_Percent(hp) == CeilDiv(hp * 100, PLAYER_MAX_HP)

\* const hpBlocks = Math.ceil((this.player.hp / PLAYER_MAX_HP) * 10)
hpBlocks(hp) == CeilDiv(hp * 10, PLAYER_MAX_HP)

\* String.prototype.repeat, which throws a RangeError for a negative count
Repeat(c, n) == [i \in 1..n |-> c]

\* the segments of the hp bar, filled ones first
BarSegments == 10

HpBar(blocks) == Repeat("full", blocks) \o Repeat("empty", BarSegments - blocks)

\* both counts are ones repeat accepts
BarFits(blocks) == blocks >= 0 /\ BarSegments - blocks >= 0

\* VampireGame.updateHUD: every output is written if it exists
updateHUD(w) ==
    [w EXCEPT !.d.hud.wave = IF w.d.present.hudWave THEN w.g.wave ELSE @,
              !.d.hud.score = IF w.d.present.hudScore THEN w.g.score ELSE @,
              !.d.hud.hp = IF w.d.present.hudHp /\ BarFits(hpBlocks(w.g.player.hp))
                           THEN HpBar(hpBlocks(w.g.player.hp)) ELSE @,
              !.d.failed = IF w.d.present.hudHp /\ ~BarFits(hpBlocks(w.g.player.hp))
                           THEN TRUE ELSE @]

\* VampireGame.showGameOver / hideGameOver
showGameOver(w) ==
    [w EXCEPT !.d.gameOverOverlay.wave =
                  IF w.d.present.gameOver /\ w.d.present.stats THEN w.g.wave ELSE @,
              !.d.gameOverOverlay.score =
                  IF w.d.present.gameOver /\ w.d.present.stats THEN w.g.score ELSE @,
              !.d.gameOverOverlay.active = IF w.d.present.gameOver THEN TRUE ELSE @]

hideGameOver(w) ==
    [w EXCEPT !.d.gameOverOverlay.active = IF w.d.present.gameOver THEN FALSE ELSE @]

(***************************************************************************)
(* The frame scheduler                                                     *)
(***************************************************************************)
\* the id requestAnimationFrame returns: one no live request and no field
\* of the game holds
FreshRafId(w) ==
    CHOOSE n \in 1..(Cardinality(w.d.raf) + 2) :
        /\ n \notin w.d.raf
        /\ n # w.g.animationId
        /\ \A m \in 1..(n - 1) : m \in w.d.raf \/ m = w.g.animationId

\* this.animationId = requestAnimationFrame(this.gameLoop)
Requested(w, id) == [w EXCEPT !.d.raf = @ \cup {id}, !.g.animationId = id]

requestFrame(w) == Requested(w, FreshRafId(w))

\* if (this.animationId) { cancelAnimationFrame(this.animationId); this.animationId = null; }
\* (history: a frame that resume() has requested will not run)
cancelFrame(w) ==
    IF w.g.animationId # 0
    THEN [w EXCEPT !.d.raf = @ \ {w.g.animationId}, !.g.animationId = 0,
                   !.h.resumedAt = -1]
    ELSE w

(***************************************************************************)
(* Starfield (canvas.js): the background animation of the page             *)
(***************************************************************************)

\* the handle of a new animation frame of the starfield: one that no pending
\* frame has and that animationFrameId does not hold
FreshStarId(w) ==
    CHOOSE i \in 1..(Cardinality(w.d.stars.frames) + 2) :
        /\ i \notin w.d.stars.frames \cup {w.d.stars.animationFrameId}
        /\ \A j \in 1..(i - 1) : j \in w.d.stars.frames \cup {w.d.stars.animationFrameId}

\* animate(): draw, then if (isAnimating) animationFrameId = requestAnimationFrame(animate)
animate(w) ==
    IF w.d.stars.isAnimating
    THEN [w EXCEPT !.d.stars.frames = @ \cup {FreshStarId(w)},
                   !.d.stars.animationFrameId = FreshStarId(w)]
    ELSE w

\* Starfield.stop
Starfield_stop(w) ==
    IF w.d.stars.animationFrameId # 0
    THEN [w EXCEPT !.d.stars.isAnimating = FALSE,
                   !.d.stars.frames = @ \ {w.d.stars.animationFrameId},
                   !.d.stars.animationFrameId = 0]
    ELSE [w EXCEPT !.d.stars.isAnimating = FALSE]

\* Starfield.start (the canvas of the starfield has been found by init)
Starfield_start(w) ==
    IF w.d.stars.isAnimating THEN w
    ELSE animate([w EXCEPT !.d.stars.isAnimating = TRUE])

\* the listener of visibilitychange that Starfield.init adds
onVisibilityChange(w, hidden) ==
    IF hidden THEN Starfield_stop([w EXCEPT !.d.hidden = TRUE])
    ELSE Starfield_start([w EXCEPT !.d.hidden = FALSE])

\* a pending frame of the starfield runs: animate is called back
starFrame(w, id) == animate([w EXCEPT !.d.stars.frames = @ \ {id}])

(***************************************************************************)
(* VampireGame: life cycle                                                 *)
(***************************************************************************)
\* this.initGrid(); this.render(); this.updateHUD(): what follows initGrid
\* is not run when it has thrown
AfterInitGrid(w) == IF w.d.failed THEN w ELSE updateHUD(render(w))

\* a faulty variant: an init that keeps the score and the hostiles
init_KeepScore(w) ==
    AfterInitGrid(initGrid(
        [w EXCEPT !.g.player = NewPlayer(Cells(CANVAS_WIDTH \div 2),
                                         Cells(CANVAS_HEIGHT \div 2)),
                  !.g.projectiles = <<>>,
                  !.g.xpGems = <<>>,
                  !.g.wave = 1,
                  !.g.waveTimer = 0,
                  !.g.spawnTimer = 0,
                  !.g.enemiesSpawnedThisWave = 0,
                  !.g.keys = {},
                  !.h.sinceHit = -1,
                  !.h.sinceShot = -1,
                  !.h.runKills = 0,
                  !.h.runCollected = 0,
                  !.h.contactHp = <<>>,
                  !.h.simTime = 0,
                  !.h.projAge = <<>>,
                  !.h.resumedAt = -1,
                  !.h.restarts = @ + 1]))

\* VampireGame.init
init(w) ==
    AfterInitGrid(initGrid(
        [w EXCEPT !.g.player = NewPlayer(Cells(CANVAS_WIDTH \div 2),
                                         Cells(CANVAS_HEIGHT \div 2)),
                  !.g.enemies = <<>>,
                  !.g.projectiles = <<>>,
                  !.g.xpGems = <<>>,
                  !.g.wave = 1,
                  !.g.score = 0,
                  !.g.waveTimer = 0,
                  !.g.spawnTimer = 0,
                  !.g.enemiesSpawnedThisWave = 0,
                  !.g.keys = {},
                  !.h.sinceHit = -1,
                  !.h.sinceShot = -1,
                  !.h.runKills = 0,
                  !.h.runCollected = 0,
                  !.h.contactHp = <<>>,
                  !.h.simTime = 0,
                  !.h.projAge = <<>>,
                  !.h.resumedAt = -1,
                  !.h.restarts = @ + 1]))

\* VampireGame.start
start(w) ==
    IF w.g.state = "playing" THEN w
    ELSE requestFrame(Starfield_stop([w EXCEPT !.g.state = "playing",
                                               !.g.lastTimestamp = w.clock,
                                               !.d.keydown = TRUE,
                                               !.d.keyup = TRUE,
                                               !.h.halted = FALSE]))

\* a faulty variant: a pause that leaves the frame request alone
pause_NoCancel(w) ==
    IF w.g.state # "playing" THEN w
    ELSE Starfield_start([w EXCEPT !.g.state = "paused", !.h.pausedAt = w.clock])

\* VampireGame.pause
pause(w) ==
    IF w.g.state # "playing" THEN w
    ELSE Starfield_start(cancelFrame([w EXCEPT !.g.state = "paused",
                                               !.h.pausedAt = w.clock]))

\* a faulty variant: a resume that does not test the state
resume_Always(w) ==
    requestFrame(Starfield_stop([w EXCEPT !.g.state = "playing",
                                          !.g.lastTimestamp = w.clock,
                                          !.h.resumedAt = w.clock,
                                          !.h.pausedFor = w.clock - w.h.pausedAt]))

\* a faulty variant: a resume that keeps the elapsed-time base of the pause
resume_KeepBase(w) ==
    IF w.g.state # "paused" THEN w
    ELSE requestFrame(Starfield_stop([w EXCEPT !.g.state = "playing",
                                               !.h.resumedAt = w.clock,
                                               !.h.pausedFor = w.clock - w.h.pausedAt]))

\* VampireGame.resume
resume(w) ==
    IF w.g.state # "paused" THEN w
    ELSE requestFrame(Starfield_stop([w EXCEPT !.g.state = "playing",
                                               !.g.lastTimestamp = w.clock,
                                               !.h.resumedAt = w.clock,
                                               !.h.pausedFor = w.clock - w.h.pausedAt]))

\* VampireGame.gameOver
gameOver(w) ==
    showGameOver([Starfield_start(cancelFrame([w EXCEPT !.g.state = "gameover"]))
                     EXCEPT !.d.keyup = FALSE])

\* this.init(); this.start(): start is not reached when init has thrown
StartAfterInit(w) == IF w.d.failed THEN w ELSE start(w)

\* VampireGame.reset
reset(w) ==
    StartAfterInit(init(hideGameOver([w EXCEPT !.d.keydown = FALSE])))

\* history: destroy() is called in the state the game is in
Destroyed(w) == [w EXCEPT !.h.destroyedIn = w.g.state, !.h.halted = TRUE]

\* a faulty variant: a destroy that leaves the frame request alone
destroy_NoCancel(w) ==
    [Starfield_start(Destroyed(w)) EXCEPT !.g.state = "idle",
                                          !.d.keydown = FALSE,
                                          !.d.keyup = FALSE]

\* VampireGame.destroy
destroy(w) ==
    [Starfield_start(cancelFrame([Destroyed(w) EXCEPT !.g.state = "idle"]))
        EXCEPT !.d.keydown = FALSE, !.d.keyup = FALSE]

\* VampireGame.showPauseMenu / hidePauseMenu
showPauseMenu(w) ==
    [pause(w) EXCEPT !.d.pauseOverlay = IF w.d.present.pause THEN TRUE ELSE @]

hidePauseMenu(w) ==
    resume([w EXCEPT !.d.pauseOverlay = IF w.d.present.pause THEN FALSE ELSE @])

(***************************************************************************)
(* VampireGame.checkCollisions                                             *)
(***************************************************************************)
IsActive(e) == e.active

\* history: an entity as the observations hold it
Pos(e) == [id |-> e.id, x |-> e.x, y |-> e.y, active |-> e.active]

PosSeq(s) == [i \in 1..Len(s) |-> Pos(s[i])]

\* dx < 0.8 && dy < 0.8
Touches(ax, ay, b) == Abs(ax - b.x) < 800 /\ Abs(ay - b.y) < 800

\* dx < 1.5 && dy < 1.5
Collects(px, py, gem) == Abs(px - gem.x) < 1500 /\ Abs(py - gem.y) < 1500

\* "Knockback enemy slightly": 2 cells along atan2(enemy.y - py, enemy.x - px),
\* which is the angle 0 when both differences are 0
Pushed(e, dx, dy, dist) ==
    IF dist = 0 THEN [e EXCEPT !.x = @ + 2000]
    ELSE [e EXCEPT !.x = @ + RoundDiv(dx * 2000, dist),
                   !.y = @ + RoundDiv(dy * 2000, dist)]

\* a faulty variant: a knockback that pulls the hostile over the player
Knockback_Toward(e, px, py) ==
    Pushed(e, (px - e.x) * 40, (py - e.y) * 40,
           Distance((e.x - px) * 40, (e.y - py) * 40))

Knockback(e, px, py) ==
    Pushed(e, (e.x - px) * 40, (e.y - py) * 40,
           Distance((e.x - px) * 40, (e.y - py) * 40))

\* the indices of the entities a filter(e => e.active) keeps
ActiveIdx(s) == {i \in 1..Len(s) : s[i].active}

\* "Player vs Enemies", from the i-th enemy on; act is activeEnemies
\* the body of the loop for the i-th enemy
PlayerVsEnemy(w, act, px, py, i) ==
    IF i \in act /\ Touches(px, py, w.g.enemies[i])
    THEN [w EXCEPT !.g.player = Player_takeDamage(@, ENEMY_DAMAGE),
                   !.g.enemies[i] = IF w.g.player.invincible THEN @
                                    ELSE Knockback(@, px, py),
                   !.h.last.contact = TRUE,
                   !.h.sinceHit = IF w.g.player.invincible THEN @ ELSE 0]
    ELSE w

RECURSIVE PlayerVsEnemies(_, _, _, _, _)
PlayerVsEnemies(w, act, px, py, i) ==
    IF i > Len(w.g.enemies) THEN w
    ELSE PlayerVsEnemies(PlayerVsEnemy(w, act, px, py, i), act, px, py, i + 1)

\* a faulty variant: a hit test that does not skip a dead hostile
FirstTouched_Dead(q, enemies, act) ==
    IF \E i \in act : Touches(q.x, q.y, enemies[i])
    THEN CHOOSE i \in act :
             /\ Touches(q.x, q.y, enemies[i])
             /\ \A k \in act : Touches(q.x, q.y, enemies[k]) => i <= k
    ELSE 0

\* the first enemy of activeEnemies, in order, that is still active and
\* that projectile q touches; 0 when there is none
FirstTouched(q, enemies, act) ==
    IF \E i \in act : enemies[i].active /\ Touches(q.x, q.y, enemies[i])
    THEN CHOOSE i \in act :
             /\ enemies[i].active /\ Touches(q.x, q.y, enemies[i])
             /\ \A k \in act :
                    (enemies[k].active /\ Touches(q.x, q.y, enemies[k])) => i <= k
    ELSE 0

\* a faulty variant: a kill that drops no pickup
KillReward_NoGem(w, j, i) ==
    IF w.g.enemies[i].active THEN w
    ELSE [w EXCEPT !.g.score = @ + KILL_REWARD,
                   !.h.killLog = Append(@, w.g.enemies[i].id),
                   !.h.runKills = @ + 1,
                   !.h.last.kills =
                       Append(@, [id |-> w.g.enemies[i].id, x |-> w.g.enemies[i].x,
                                  y |-> w.g.enemies[i].y, by |-> w.g.projectiles[j].id]),
                   !.h.last.killScore = @ + KILL_REWARD]

\* a projectile has hit enemy i: proj.active = false; if (enemy.takeDamage())
\* { this.score += 10; this.xpGems.push(new XPGem(enemy.x, enemy.y)); }
\* if (enemy.takeDamage()) { this.score += 10; this.xpGems.push(new XPGem(enemy.x, enemy.y)); }
\* for enemy i, which projectile j has just damaged
KillReward(w, j, i) ==
    IF w.g.enemies[i].active THEN w
    ELSE [w EXCEPT !.g.score = @ + KILL_REWARD,
                   !.g.xpGems = Append(@, NewXPGem(w.h.nextId, w.g.enemies[i].x,
                                                   w.g.enemies[i].y)),
                   !.h.nextId = @ + 1,
                   !.h.killLog = Append(@, w.g.enemies[i].id),
                   !.h.runKills = @ + 1,
                   !.h.last.kills =
                       Append(@, [id |-> w.g.enemies[i].id, x |-> w.g.enemies[i].x,
                                  y |-> w.g.enemies[i].y, by |-> w.g.projectiles[j].id]),
                   !.h.last.killScore = @ + KILL_REWARD,
                   !.h.last.gemsSpawned =
                       Append(@, [id |-> w.h.nextId, x |-> w.g.enemies[i].x,
                                  y |-> w.g.enemies[i].y, from |-> w.g.enemies[i].id])]

\* history: projectile j hits enemy i
RecordHit(w, j, i) ==
    [w EXCEPT !.h.hitLog = Append(@, w.g.projectiles[j].id),
              !.h.last.hits =
                  Append(@, [by |-> w.g.projectiles[j].id, id |-> w.g.enemies[i].id,
                             hp0 |-> w.g.enemies[i].hp,
                             hp1 |-> Enemy_takeDamage(w.g.enemies[i]).hp])]

\* a faulty variant: the projectile flies on through the hostile it has hit
ProjectileHit_PassThrough(w, j, i) ==
    IF i = 0 THEN w
    ELSE KillReward([RecordHit(w, j, i) EXCEPT
                         !.g.enemies[i] = Enemy_takeDamage(@)], j, i)

\* projectile j has hit enemy i (no enemy when i is 0): proj.active = false,
\* enemy.takeDamage(), break
ProjectileHit(w, j, i) ==
    IF i = 0 THEN w
    ELSE KillReward([RecordHit(w, j, i) EXCEPT
                         !.g.projectiles[j].active = FALSE,
                         !.g.enemies[i] = Enemy_takeDamage(@)], j, i)

\* "Projectiles vs Enemies", from the j-th projectile on; actP and actE are
\* activeProjectiles and activeEnemies
\* the body of the outer loop for the j-th projectile
ProjectileVsEnemies(w, actP, actE, j) ==
    IF j \in actP /\ w.g.projectiles[j].active
    THEN ProjectileHit(w, j, FirstTouched(w.g.projectiles[j], w.g.enemies, actE))
    ELSE w

RECURSIVE ProjectilesVsEnemies(_, _, _, _)
ProjectilesVsEnemies(w, actP, actE, j) ==
    IF j > Len(w.g.projectiles) THEN w
    ELSE ProjectilesVsEnemies(ProjectileVsEnemies(w, actP, actE, j), actP, actE, j + 1)

\* "Player vs XP Gems", from the k-th gem on; act is activeGems
\* the body of the loop for the k-th gem
PlayerVsGem(w, act, px, py, k) ==
    IF k \in act /\ Collects(px, py, w.g.xpGems[k])
    THEN [w EXCEPT !.g.xpGems[k].active = FALSE,
                   !.g.score = @ + w.g.xpGems[k].value,
                   !.h.last.collected = @ + 1,
                   !.h.runCollected = @ + 1]
    ELSE w

RECURSIVE PlayerVsGems(_, _, _, _, _)
PlayerVsGems(w, act, px, py, k) ==
    IF k > Len(w.g.xpGems) THEN w
    ELSE PlayerVsGems(PlayerVsGem(w, act, px, py, k), act, px, py, k + 1)

\* history: the hostiles and the hp of the player as the Projectile x
\* Hostile check finds them
RecordAtCheck(w) ==
    [w EXCEPT !.h.last.atCheck = PosSeq(w.g.enemies),
              !.h.last.atCheckHp = w.g.player.hp]

\* history: the score and the pickups as the Player x Pickup check finds them
RecordAtGems(w) ==
    [w EXCEPT !.h.last.atGems = [score |-> w.g.score, gems |-> Len(w.g.xpGems)]]

\* history: a collision check begins
Check(w, name) == [w EXCEPT !.h.last.checks = Append(@, name)]

\* "Projectiles vs Enemies (skip if either array is empty)"
ProjectilesPhase(w, actP, actE) ==
    IF actP # {} /\ actE # {} THEN ProjectilesVsEnemies(w, actP, actE, 1) ELSE w

\* "Player vs Enemies"
HostilesCheck(w, actE, px, py) ==
    PlayerVsEnemies(Check(w, "player-hostile"), actE, px, py, 1)

\* "Projectiles vs Enemies"
ProjectilesCheck(w, actP, actE) ==
    ProjectilesPhase(RecordAtCheck(Check(w, "projectile-hostile")), actP, actE)

\* "Player vs XP Gems"
GemsCheck(w, actG, px, py) ==
    PlayerVsGems(RecordAtGems(Check(w, "player-pickup")), actG, px, py, 1)

\* a faulty variant: the pickups to collect are listed when their check
\* begins
GemsCheck_Fresh(w, px, py) == GemsCheck(w, ActiveIdx(w.g.xpGems), px, py)

CollisionPhases_FreshGems(w, actE, actP, actG, px, py) ==
    GemsCheck_Fresh(ProjectilesCheck(HostilesCheck(w, actE, px, py), actP, actE),
                    px, py)

\* a faulty variant: the pickups are collected before the hostiles are dealt
\* with
CollisionPhases_GemsFirst(w, actE, actP, actG, px, py) ==
    ProjectilesCheck(HostilesCheck(GemsCheck(w, actG, px, py), actE, px, py),
                     actP, actE)

\* the three checks in their order; the three filters and the cached player
\* position are taken before the first one
CollisionPhases(w, actE, actP, actG, px, py) ==
    GemsCheck(ProjectilesCheck(HostilesCheck(w, actE, px, py), actP, actE),
              actG, px, py)

checkCollisions(w) ==
    CollisionPhases(Phase(w, "collisions"),
                    ActiveIdx(w.g.enemies), ActiveIdx(w.g.projectiles),
                    ActiveIdx(w.g.xpGems), w.g.player.x, w.g.player.y)

(***************************************************************************)
(* VampireGame.updateWave, spawnEnemy                                      *)
(***************************************************************************)
\* a faulty variant: a spawn interval with no floor
spawnRate_NoFloor(wave) == BASE_SPAWN_RATE - (wave - 1) * SPAWN_RATE_STEP

\* const spawnRate = Math.max(MIN_SPAWN_RATE, BASE_SPAWN_RATE - (this.wave - 1) * 150)
spawnRate(wave) ==
    Max(MIN_SPAWN_RATE, BASE_SPAWN_RATE - (wave - 1) * SPAWN_RATE_STEP)

\* const maxEnemies = 3 + (this.wave - 1) * 2
maxEnemies(wave) == BASE_MAX_ENEMIES + (wave - 1) * MAX_ENEMIES_STEP

\* a faulty variant: a hostile spawned on the diagonal of the arena, off the edges
spawnEnemy_Inside(w, rnd) ==
    [w EXCEPT !.g.enemies =
                  Append(@, NewEnemy(w.h.nextId, rnd.along \div 2, rnd.along \div 2)),
              !.g.enemiesSpawnedThisWave = @ + 1,
              !.h.nextId = @ + 1,
              !.h.last.spawned = TRUE]

\* VampireGame.spawnEnemy: rnd.side is Math.floor(Math.random() * 4) and
\* rnd.along is Math.random() times the length of the edge
spawnEnemy(w, rnd) ==
    [w EXCEPT !.g.enemies =
                  Append(@, NewEnemy(w.h.nextId,
                                     CASE rnd.side = 0 -> rnd.along
                                       [] rnd.side = 1 -> Cells(CANVAS_WIDTH - 1)
                                       [] rnd.side = 2 -> rnd.along
                                       [] rnd.side = 3 -> 0,
                                     CASE rnd.side = 0 -> 0
                                       [] rnd.side = 1 -> rnd.along
                                       [] rnd.side = 2 -> Cells(CANVAS_HEIGHT - 1)
                                       [] rnd.side = 3 -> rnd.along)),
              !.g.enemiesSpawnedThisWave = @ + 1,
              !.h.nextId = @ + 1,
              !.h.last.spawned = TRUE]

\* a faulty variant: a rollover that begins again at wave 1
WaveRollover_Reset(w) ==
    IF w.g.waveTimer >= WAVE_DURATION
    THEN [w EXCEPT !.g.wave = 1,
                   !.g.waveTimer = 0,
                   !.g.enemiesSpawnedThisWave = 0,
                   !.h.last.rolled = TRUE]
    ELSE w

\* a faulty variant: a rollover that carries the time over into the new wave
WaveRollover_Carry(w) ==
    IF w.g.waveTimer >= WAVE_DURATION
    THEN [w EXCEPT !.g.wave = @ + 1,
                   !.g.waveTimer = @ - WAVE_DURATION,
                   !.g.enemiesSpawnedThisWave = 0,
                   !.h.last.rolled = TRUE]
    ELSE w

\* a faulty variant: a rollover that keeps the spawn counter
WaveRollover_KeepCount(w) ==
    IF w.g.waveTimer >= WAVE_DURATION
    THEN [w EXCEPT !.g.wave = @ + 1,
                   !.g.waveTimer = 0,
                   !.h.last.rolled = TRUE]
    ELSE w

\* "Check for new wave"
WaveRollover(w) ==
    IF w.g.waveTimer >= WAVE_DURATION
    THEN [w EXCEPT !.g.wave = @ + 1,
                   !.g.waveTimer = 0,
                   !.g.enemiesSpawnedThisWave = 0,
                   !.h.last.rolled = TRUE]
    ELSE w

\* a faulty variant: a spawn that no cap holds back
SpawnDue_Uncapped(g) == g.spawnTimer >= spawnRate(g.wave)

\* "Spawn enemies"
SpawnDue(g) ==
    /\ g.spawnTimer >= spawnRate(g.wave)
    /\ Len(g.enemies) < maxEnemies(g.wave) * 2

\* history: what the spawn check finds
RecordGate(w) ==
    [w EXCEPT !.h.last.gate =
        [timer |-> w.g.spawnTimer,
         rate |-> spawnRate(w.g.wave),
         length |-> Len(w.g.enemies),
         active |-> Cardinality(ActiveIdx(w.g.enemies)),
         cap |-> 2 * maxEnemies(w.g.wave)]]

\* if (this.spawnTimer >= spawnRate && ...) { this.spawnEnemy(); this.spawnTimer = 0; }
SpawnStep(w, rnd) ==
    IF SpawnDue(w.g)
    THEN [spawnEnemy(RecordGate(w), rnd) EXCEPT !.g.spawnTimer = 0]
    ELSE RecordGate(w)

updateWave(w, dt, rnd) ==
    SpawnStep(WaveRollover(Phase([w EXCEPT !.g.waveTimer = @ + dt,
                                           !.g.spawnTimer = @ + dt], "wave")), rnd)

(***************************************************************************)
(* VampireGame.gameLoop                                                    *)
(***************************************************************************)
\* "2. Auto-attack": now is performance.now()
AutoAttack(w, now) ==
    IF canAttack(w.g.player, now)
    THEN [w EXCEPT !.g.player.lastAttack = now,
                   !.g.projectiles = Append(@, attack(w.g.player, w.h.nextId)),
                   !.h.nextId = @ + 1,
                   !.h.last.fired = TRUE,
                   !.h.last.shotGap = w.h.sinceShot,
                   !.h.sinceShot = 0,
                   !.h.last.phases = Append(@, "attack")]
    ELSE Phase(w, "attack")

\* "3. Update entities"
\* the enemies and the projectiles updated, the player's update being done
UpdateOthers(w, dt) ==
    [w EXCEPT !.g.enemies = [i \in 1..Len(@) |-> Enemy_update(@[i], dt, w.g.player)],
              !.g.projectiles = [i \in 1..Len(@) |-> Projectile_update(@[i], dt)],
              !.h.last.phases = @ \o <<"hostiles", "projectiles">>]

UpdateEntities(w, dt) ==
    UpdateOthers([w EXCEPT !.g.player = Player_update(@, dt),
                           !.h.last.phases = Append(@, "invincibility")], dt)

\* history: where every entity is when the movement is done
RecordMoved(w) ==
    [w EXCEPT !.h.last.moved =
        [player |-> [x |-> w.g.player.x, y |-> w.g.player.y],
         enemies |-> PosSeq(w.g.enemies),
         projectiles |-> PosSeq(w.g.projectiles)]]

\* "6. Clean up inactive entities"
\* a faulty variant: a cleanup that leaves the projectiles as they are
Cleanup_KeepProjectiles(w) ==
    [w EXCEPT !.h.last.phases = Append(@, "cleanup"),
              !.g.enemies = SelectSeq(@, IsActive),
              !.g.xpGems = SelectSeq(@, IsActive),
              !.h.last.removed =
                  {e.id : e \in {f \in SeqRange(w.g.enemies) \cup SeqRange(w.g.xpGems) :
                                     ~f.active}}]

Cleanup(w) ==
    [w EXCEPT !.h.last.phases = Append(@, "cleanup"),
              !.g.enemies = SelectSeq(@, IsActive),
              !.g.projectiles = SelectSeq(@, IsActive),
              !.g.xpGems = SelectSeq(@, IsActive),
              !.h.last.removed =
                  {e.id : e \in {f \in SeqRange(w.g.enemies) \cup SeqRange(w.g.projectiles)
                                         \cup SeqRange(w.g.xpGems) : ~f.active}}]

\* history: the simulated time, the time since the last hit and the age of
\* every projectile, advanced by the dt of an executed tick
StartTick(w, dt) ==
    [w EXCEPT !.h.last = [NoTick EXCEPT !.dt = dt,
                                        !.hp0 = w.g.player.hp,
                                        !.score0 = w.g.score,
                                        !.sinceResume =
                                            IF w.h.resumedAt < 0 THEN -1
                                            ELSE w.clock - w.h.resumedAt,
                                        !.pausedFor =
                                            IF w.h.resumedAt < 0 THEN 0
                                            ELSE w.h.pausedFor,
                                        !.pre =
                                            [waveTimer |-> w.g.waveTimer,
                                             spawnTimer |-> w.g.spawnTimer,
                                             invincible |-> w.g.player.invincible,
                                             invincibleTimer |-> w.g.player.invincibleTimer,
                                             x |-> w.g.player.x,
                                             y |-> w.g.player.y,
                                             enemies |-> PosSeq(w.g.enemies),
                                             gems |-> PosSeq(w.g.xpGems),
                                             born |-> w.h.last.gemsSpawned,
                                             bornAt |-> w.h.last.moved.player],
                                        !.hitAge = IF w.h.sinceHit < 0 THEN -1
                                                   ELSE w.h.sinceHit + dt],
              !.h.ticks = @ + 1,
              !.h.resumedAt = -1,
              !.h.simTime = @ + dt,
              !.h.sinceHit = IF @ < 0 THEN @ ELSE @ + dt,
              !.h.sinceShot = IF @ < 0 THEN @ ELSE @ + dt]

AgeProjectiles(w, dt) ==
    [w EXCEPT !.h.projAge =
        [id \in {q.id : q \in SeqRange(w.g.projectiles)} |->
            (IF id \in DOMAIN w.h.projAge THEN w.h.projAge[id] ELSE 0) + dt]]

\* history: what the frame came to
EndTick(w) ==
    [w EXCEPT !.h.last.hp1 = w.g.player.hp,
              !.h.last.score1 = w.g.score,
              !.h.contactHp = IF w.h.last.contact THEN Append(@, w.g.player.hp) ELSE @]

\* gameLoop(timestamp); performance.now() is w.clock
\* a faulty variant: a frame that ends the run only below 0 hp
FinishTick_Below0(w) ==
    IF w.g.player.hp < 0
    THEN gameOver([w EXCEPT !.h.last.ended = TRUE,
                            !.h.last.phases = Append(@, "game over")])
    ELSE Phase(requestFrame(Phase(updateHUD(Phase(render(Phase(w, "game over")),
                                                   "render")), "hud")), "schedule")

\* "7. Check game over", "8. Render", "9. Continue loop"
FinishTick(w) ==
    IF w.g.player.hp <= 0
    THEN gameOver([w EXCEPT !.h.last.ended = TRUE,
                            !.h.last.phases = Append(@, "game over")])
    ELSE Phase(requestFrame(Phase(updateHUD(Phase(render(Phase(w, "game over")),
                                                   "render")), "hud")), "schedule")

\* "1. Handle input"
PlayerInput(w, dt) ==
    [w EXCEPT !.g.player = handleInput(@, w.g.keys, dt),
              !.h.last.phases = Append(@, "input")]

\* a faulty variant: a frame that checks the collisions before it moves
\* anything
TickBody_CollideFirst(w, dt, now, rnd) ==
    EndTick(AgeProjectiles(Cleanup(
        updateWave(
            RecordMoved(UpdateEntities(
                AutoAttack(PlayerInput(checkCollisions(StartTick(w, dt)), dt), now), dt)),
            dt, rnd)), dt))

\* the steps 1 to 6 of a frame; now is performance.now()
TickBody(w, dt, now, rnd) ==
    EndTick(AgeProjectiles(Cleanup(
        updateWave(
            checkCollisions(
                RecordMoved(UpdateEntities(
                    AutoAttack(PlayerInput(StartTick(w, dt), dt), now), dt))),
            dt, rnd)), dt))

gameLoop(w, timestamp, rnd) ==
    IF w.g.state # "playing" THEN w
    ELSE FinishTick(TickBody([w EXCEPT !.g.lastTimestamp = timestamp],
                             timestamp - w.g.lastTimestamp, w.clock, rnd))

(***************************************************************************)
(* VampireGame.handleKeyDown, handleKeyUp                                  *)
(***************************************************************************)
\* handleKeyDown(e): inInput is e.target.tagName === 'INPUT'
\* "Retry on R when game over"
KeyRetry(w, code) ==
    IF code = "KeyR" /\ w.g.state = "gameover" THEN reset(w) ELSE w

\* "ESC to toggle pause menu"
KeyEscape(w, code) ==
    IF code = "Escape" /\ w.g.state = "playing" THEN showPauseMenu(w)
    ELSE IF code = "Escape" /\ w.g.state = "paused" THEN hidePauseMenu(w)
    ELSE w

handleKeyDown(w, code, inInput) ==
    IF inInput THEN w
    ELSE KeyEscape(KeyRetry([w EXCEPT !.g.keys = @ \cup {code}], code), code)

\* handleKeyUp(e)
handleKeyUp(w, code) == [w EXCEPT !.g.keys = @ \ {code}]

(***************************************************************************)
(* What the page and the browser do to the game.                           *)
(***************************************************************************)
\* the elements initVampireWindow and the game look up: the canvas, the
\* three HUD outputs, the game-over overlay with its stats line and the
\* pause overlay
AllPresent ==
    [canvas |-> TRUE, hudWave |-> TRUE, hudScore |-> TRUE, hudHp |-> TRUE,
     gameOver |-> TRUE, stats |-> TRUE, pause |-> TRUE]

\* initVampireWindow: game = new VampireGame(canvas, hud); game.init()
ConstructedWith(now, present) ==
    init([g |-> [state |-> "idle",
                 player |-> NewPlayer(0, 0),
                 enemies |-> <<>>, projectiles |-> <<>>, xpGems |-> <<>>,
                 wave |-> 1, score |-> 0, waveTimer |-> 0, spawnTimer |-> 0,
                 enemiesSpawnedThisWave |-> 0,
                 keys |-> {},
                 lastTimestamp |-> 0,
                 animationId |-> 0,
                 prevGrid |-> {}],
          d |-> [raf |-> {}, keydown |-> FALSE, keyup |-> FALSE,
                 present |-> present, failed |-> FALSE,
                 surface |-> {},
                 hud |-> [wave |-> 0, score |-> 0, hp |-> <<>>],
                 gameOverOverlay |-> [active |-> FALSE, wave |-> 0, score |-> 0],
                 pauseOverlay |-> FALSE,
                 startOverlayHidden |-> FALSE,
                 win |-> [isMinimized |-> FALSE, isMaximized |-> FALSE,
                          isDragging |-> FALSE],
                 stars |-> [isAnimating |-> TRUE, animationFrameId |-> 1,
                            frames |-> {1}],
                 hidden |-> FALSE],
          clock |-> now,
          h |-> [nextId |-> 1, ticks |-> 0, elapses |-> 0, restarts |-> -1, simTime |-> 0,
                 pausedAt |-> -1, resumedAt |-> -1, pausedFor |-> 0,
                 destroyedIn |-> "", halted |-> FALSE, winOp |-> "",
                 sinceHit |-> -1, sinceShot |-> -1, runKills |-> 0, runCollected |-> 0,
                 contactHp |-> <<>>, killLog |-> <<>>, hitLog |-> <<>>,
                 projAge |-> <<>>, last |-> NoTick, render |-> NoRender]])

Constructed(now) == ConstructedWith(now, AllPresent)

\* initVampireWindow goes on to create the window manager and to attach the
\* click handlers only if game.init() has returned
PageReady(d) == ~d.failed

\* the start button's click handler
ClickStart(w) == start([w EXCEPT !.d.startOverlayHidden = TRUE])

\* the browser runs the frame callback it holds under id, d ms later
RunFrame(w, id, d, rnd) ==
    gameLoop([w EXCEPT !.clock = @ + d, !.d.raf = @ \ {id}], w.clock + d, rnd)

\* the pause menu's restart button
ClickPauseRestart(w) ==
    StartAfterInit(init(destroy(
        [w EXCEPT !.d.pauseOverlay = IF w.d.present.pause THEN FALSE ELSE @])))

\* the window's onClose
\* "Show start overlay again", which init() is to return for
ShowStartOverlay(w) ==
    IF w.d.failed THEN w ELSE [w EXCEPT !.d.startOverlayHidden = FALSE]

OnClose(w) == ShowStartOverlay(init(destroy(w)))

\* onMinimize and onRestore of the game window
onMinimize(w) == IF w.g.state = "playing" THEN pause(w) ELSE w

onRestore(w) == IF w.g.state = "paused" THEN resume(w) ELSE w

(***************************************************************************)
(* WindowManager (menubar.js), as the game window uses it                  *)
(***************************************************************************)
\* a faulty variant: a minimize that leaves the window maximized
minimize_KeepMaximized(w) ==
    onMinimize([w EXCEPT !.d.win.isMinimized = TRUE, !.h.winOp = "minimize"])

\* WindowManager.minimize
minimize(w) ==
    onMinimize([w EXCEPT !.d.win.isMaximized = FALSE, !.d.win.isMinimized = TRUE,
                         !.h.winOp = "minimize"])

\* WindowManager.restore
restore(w) ==
    onRestore([w EXCEPT !.d.win.isMinimized = FALSE, !.d.win.isMaximized = FALSE,
                        !.h.winOp = "restore"])

\* WindowManager.maximize; the game window gives no onMaximize
maximize(w) ==
    [w EXCEPT !.d.win.isMinimized = FALSE, !.d.win.isMaximized = TRUE,
              !.h.winOp = "maximize"]

\* WindowManager.close
close(w) ==
    OnClose([w EXCEPT !.d.win.isMaximized = FALSE, !.d.win.isMinimized = TRUE,
                      !.h.winOp = "close"])

toggleMinimize(w) == IF w.d.win.isMinimized THEN restore(w) ELSE minimize(w)

toggleMaximize(w) == IF w.d.win.isMaximized THEN restore(w) ELSE maximize(w)

\* WindowManager._onMouseDown on the titlebar: onLight tells that the target
\* is within an element of preventDragOn
onMouseDown(w, onLight) ==
    IF onLight \/ w.d.win.isMaximized THEN w
    ELSE [w EXCEPT !.d.win.isDragging = TRUE]

\* WindowManager._onMouseUp
onMouseUp(w) == [w EXCEPT !.d.win.isDragging = FALSE]

\* openVampireGame
openVampireGame(w) ==
    onRestore(IF w.d.win.isMinimized THEN restore(w) ELSE w)

(***************************************************************************)
(* Scripted runs.  A script is a sequence of events; Replay runs it from   *)
(* the constructed game with the operators above, so the state it ends in  *)
(* is one the program reaches.                                             *)
(***************************************************************************)
\* an event reaches the game only through a listener that is attached or a
\* frame callback that is requested
ApplyEvent(w, ev) ==
    CASE ev.op = "start" -> IF PageReady(w.d) THEN ClickStart(w) ELSE w
      [] ev.op = "keydown" ->
            IF w.d.keydown THEN handleKeyDown(w, ev.code, FALSE) ELSE w
      [] ev.op = "keyup" ->
            IF w.d.keyup THEN handleKeyUp(w, ev.code) ELSE w
      [] ev.op = "tick" ->
            IF w.d.raf = {} THEN w
            ELSE RunFrame(w, CHOOSE id \in w.d.raf : TRUE, ev.dt, ev.rnd)
      [] ev.op = "elapse" ->
            IF w.g.state = "playing" THEN w ELSE [w EXCEPT !.clock = @ + ev.dt]

RECURSIVE ReplayFrom(_, _, _)
ReplayFrom(w, script, i) ==
    IF i > Len(script) THEN w
    ELSE ReplayFrom(ApplyEvent(w, script[i]), script, i + 1)

(***************************************************************************)
(* Bounds and inputs.                                                      *)
(***************************************************************************)
\* performance.now() when the page builds the game
StartClock == 1000
\* frames run after the initial state
MaxTicks == 2
\* times the clock advances while no frame runs
MaxElapses == 1
\* keys held down at the same time
MaxHeld == 1
\* runs begun again (by the R key, the restart button or closing the window)
MaxRestarts == 1

\* the ms between two frames, and the ms that pass while no frame runs
DtSet == {100, 350, 2000}
ElapseSet == {1000}

\* the keys pressed and released
Codes == {"KeyD", "KeyS", "KeyR", "Escape"}

\* the outcomes of the two Math.random() calls of spawnEnemy
SpawnChoices ==
    {[side |-> 0, along |-> 29999], [side |-> 1, along |-> 7000]}

Tk(dt, side, along) ==
    [op |-> "tick", dt |-> dt, rnd |-> [side |-> side, along |-> along]]
Dn(code) == [op |-> "keydown", code |-> code]
Up(code) == [op |-> "keyup", code |-> code]
Go == [op |-> "start"]
El(dt) == [op |-> "elapse", dt |-> dt]

\* nothing has happened
ScriptFresh == <<>>

\* the player has walked to the right edge, a hostile has spawned on it
\* and has hit the player once
ScriptHit == <<Go, Dn("KeyD"), Tk(2000, 1, 7000), Tk(350, 1, 7000)>>

\* a hostile approaches from the right edge; the player has stepped left,
\* turned right and fired
ScriptTwoShots ==
    <<Go, Tk(2000, 1, 7000), Dn("KeyA"), Tk(300, 1, 7000), Up("KeyA"),
      Dn("KeyD"), Tk(100, 1, 7000)>>

\* the player has shot a hostile, has walked over its pickup to the right
\* edge and has stood there in a crowd for 20 s
ScriptLowHp ==
    <<Go, Tk(2000, 1, 7000), Dn("KeyD"), Tk(350, 1, 7000),
      Tk(2000, 1, 7000), Tk(2000, 1, 7000), Tk(2000, 1, 7000), Tk(2000, 1, 7000),
      Tk(2000, 1, 7000), Tk(2000, 1, 7000), Tk(2000, 1, 7000), Tk(2000, 1, 7000),
      Tk(2000, 1, 7000), Tk(2000, 1, 7000), Up("KeyD")>>

\* the player has turned to the left; five hostiles have come from the
\* right edge and a sixth from the left edge, which has walked for 1650 ms
ScriptCrowded ==
    <<Go, Dn("KeyA"), Tk(10, 1, 7000), Up("KeyA"), Tk(1990, 1, 7000),
      Tk(2000, 1, 7000), Tk(2000, 1, 7000), Tk(2000, 1, 7000), Tk(2000, 1, 7000),
      Tk(2000, 3, 7000), Tk(1650, 1, 7000)>>

\* the player stands at the centre; a first hostile has come from the right
\* edge and has just been shot next to the player, a second one comes down
\* from the top edge and a third one walks in from the right edge
ScriptMelee ==
    <<Go, Tk(2000, 1, 7000), Tk(3500, 0, 15000), Tk(2000, 1, 7000),
      Tk(500, 1, 7000), Tk(340, 1, 7000), Tk(10, 1, 7000)>>

\* the player has turned to the left; a first hostile has come from the
\* right edge and has run past the player to the left edge in a frame of
\* 15 s, where a second one has spawned on it; both have walked to x = 4, a
\* projectile has flown to x = 10.472 and a third hostile has spawned on the
\* left edge
ScriptPair ==
    <<Go, Dn("KeyA"), Tk(1, 1, 7000), Up("KeyA"), Tk(1999, 1, 7000),
      Tk(15000, 3, 7000), Tk(1566, 1, 7000), Tk(300, 1, 7000), Tk(134, 3, 7000)>>

\* the first wave is 1 s from its end
ScriptWaveEnd == <<Go, Tk(19000, 1, 7000)>>

\* the game has been started with the left, right and down keys held
ScriptThreeKeys == <<Go, Dn("KeyA"), Dn("KeyD"), Dn("KeyS")>>

\* the first frame has fired; the game has been paused with Escape for a
\* second and resumed, and a frame has run 100 ms after the resume
ScriptPausedShot ==
    <<Go, Tk(2000, 1, 7000), Dn("Escape"), Up("Escape"), El(1000),
      Dn("Escape"), Up("Escape"), Tk(100, 1, 7000)>>

ReplayWith(script, present) ==
    [ReplayFrom(ConstructedWith(StartClock, present), script, 1) EXCEPT !.h.ticks = 0]

Replay(script) == ReplayWith(script, AllPresent)

\* the variables hold the world w
Holds(w) ==
    /\ game = w.g
    /\ dom = w.d
    /\ clock = w.clock
    /\ hist = w.h

InitFrom(scripts) == \E script \in scripts : Holds(Replay(script))

(***************************************************************************)
(* Actions                                                                 *)
(***************************************************************************)
\* the start button is clicked (the start overlay shows it)
Start ==
    /\ PageReady(dom)
    /\ ~dom.startOverlayHidden
    /\ Commit(ClickStart(World))

\* a frame callback runs, dt after the previous frame
TickWith(dts, rnds) ==
    /\ hist.ticks < MaxTicks
    /\ \E id \in dom.raf, d \in dts, rnd \in rnds :
           Commit(RunFrame(World, id, d, rnd))

KeyDownWith(codes) ==
    /\ dom.keydown
    /\ \E code \in codes, inInput \in BOOLEAN :
           /\ Cardinality(game.keys \cup {code}) <= MaxHeld
           /\ (code = "KeyR" /\ game.state = "gameover") => hist.restarts < MaxRestarts
           /\ Commit(handleKeyDown(World, code, inInput))

KeyUp ==
    /\ dom.keyup
    /\ \E code \in game.keys : Commit(handleKeyUp(World, code))

(***************************************************************************)
(* Spec: a game played with the keyboard.                                  *)
(***************************************************************************)
Init ==
    InitFrom({ScriptFresh, ScriptHit, ScriptTwoShots, ScriptLowHp, ScriptCrowded,
              ScriptMelee, ScriptPair, ScriptThreeKeys})

Tick == TickWith(DtSet, SpawnChoices)

KeyDown == KeyDownWith(Codes)

Next ==
    \/ Start
    \/ Tick
    \/ KeyDown
    \/ KeyUp

Spec == Init /\ [][Next]_vars

(***************************************************************************)
(* SpecLife: the life cycle, driven by the window chrome, the pause menu   *)
(* and the keyboard.                                                       *)
(***************************************************************************)
LifeDtSet == {350, 2000}
LifeCodes == {"KeyR", "Escape"}

LifeInit == InitFrom({ScriptFresh, ScriptLowHp, ScriptWaveEnd, ScriptPausedShot})

LifeTick == TickWith(LifeDtSet, {[side |-> 1, along |-> 7000]})

LifeKeyDown == KeyDownWith(LifeCodes)

\* game.pause() and game.resume(), as the window chrome calls them
Pause == PageReady(dom) /\ Commit(pause(World))

Resume == PageReady(dom) /\ Commit(resume(World))

\* time passes while no frame is due
Elapse ==
    /\ game.state # "playing"
    /\ hist.elapses < MaxElapses
    /\ \E d \in ElapseSet :
           Commit([World EXCEPT !.clock = @ + d, !.h.elapses = @ + 1])

PauseRestart ==
    /\ PageReady(dom)
    /\ dom.pauseOverlay
    /\ hist.restarts < MaxRestarts
    /\ Commit(ClickPauseRestart(World))

Close ==
    /\ PageReady(dom)
    /\ hist.restarts < MaxRestarts
    /\ Commit(OnClose(World))

LifeNext ==
    \/ Start
    \/ LifeTick
    \/ LifeKeyDown
    \/ KeyUp
    \/ Pause
    \/ Resume
    \/ Elapse
    \/ PauseRestart
    \/ Close

SpecLife == LifeInit /\ [][LifeNext]_vars

(***************************************************************************)
(* SpecAbsent: the life cycle on pages where some of the elements the game *)
(* writes to do not exist.                                                 *)
(***************************************************************************)
PresentChoices ==
    {AllPresent,
     [AllPresent EXCEPT !.canvas = FALSE],
     [AllPresent EXCEPT !.hudWave = FALSE, !.hudScore = FALSE, !.hudHp = FALSE],
     [AllPresent EXCEPT !.hudHp = FALSE],
     [AllPresent EXCEPT !.stats = FALSE],
     [AllPresent EXCEPT !.gameOver = FALSE, !.stats = FALSE, !.pause = FALSE]}

AbsentInit ==
    \E present \in PresentChoices, script \in {ScriptFresh, ScriptLowHp} :
        Holds(ReplayWith(script, present))

AbsentNext ==
    \/ Start
    \/ LifeTick
    \/ LifeKeyDown
    \/ KeyUp
    \/ PauseRestart
    \/ Close

SpecAbsent == AbsentInit /\ [][AbsentNext]_vars

(***************************************************************************)
(* SpecWindow: the game window.  The window is minimised, maximised,       *)
(* restored, closed, opened and dragged while the game runs.               *)
(***************************************************************************)
WinDtSet == {350}

WinCodes == {"KeyR", "Escape"}

WinInit == InitFrom({ScriptFresh, ScriptLowHp})

WinTick == TickWith(WinDtSet, {[side |-> 1, along |-> 7000]})

WinKeyDown == KeyDownWith(WinCodes)

\* the start button is clicked, in a window that is to be seen
WinStart == ~dom.win.isMinimized /\ Start

\* the methods of the window manager, which the traffic lights, the dock
\* and the page call
Minimize == PageReady(dom) /\ Commit(minimize(World))

Restore == PageReady(dom) /\ Commit(restore(World))

Maximize == PageReady(dom) /\ Commit(maximize(World))

ToggleMinimize == PageReady(dom) /\ Commit(toggleMinimize(World))

ToggleMaximize == PageReady(dom) /\ Commit(toggleMaximize(World))

WinClose ==
    /\ PageReady(dom)
    /\ hist.restarts < MaxRestarts
    /\ Commit(close(World))

Open == PageReady(dom) /\ Commit(openVampireGame(World))

MouseDown ==
    /\ PageReady(dom)
    /\ \E onLight \in BOOLEAN : Commit(onMouseDown(World, onLight))

MouseUp == PageReady(dom) /\ Commit(onMouseUp(World))

\* the tab of the page is hidden or shown again
VisibilityChange == Commit(onVisibilityChange(World, ~dom.hidden))

\* the browser runs a pending frame of the starfield
StarFrame == \E id \in dom.stars.frames : Commit(starFrame(World, id))

WinNext ==
    \/ WinStart
    \/ WinTick
    \/ WinKeyDown
    \/ KeyUp
    \/ Minimize
    \/ Restore
    \/ Maximize
    \/ ToggleMinimize
    \/ ToggleMaximize
    \/ WinClose
    \/ Open
    \/ MouseDown
    \/ MouseUp
    \/ VisibilityChange
    \/ StarFrame

SpecWindow == WinInit /\ [][WinNext]_vars


(***************************************************************************)
(* SpecWave: the waves.  The runs begin in a fresh game or after 1 to      *)
(* MaxWaves frames of 20 s each, and go on with long frames.               *)
(***************************************************************************)
\* whole waves played before the initial state
MaxWaves == 12

WaveDtSet == {1000, 10000, 19000}

RECURSIVE WaveTicks(_)
WaveTicks(k) ==
    IF k = 0 THEN <<>> ELSE Append(WaveTicks(k - 1), Tk(WAVE_DURATION, 1, 7000))

\* the player has stood still for k waves
ScriptWaves(k) == <<Go>> \o WaveTicks(k)

WaveInit == InitFrom({ScriptFresh} \cup {ScriptWaves(k) : k \in 1..MaxWaves})

\* the outcomes of the two Math.random() calls of spawnEnemy: every edge,
\* and both ends of an edge
WaveSpawnChoices ==
    {[side |-> 0, along |-> 29999], [side |-> 1, along |-> 7000],
     [side |-> 2, along |-> 0], [side |-> 3, along |-> 14999]}

WaveTick == TickWith(WaveDtSet, WaveSpawnChoices)

WaveNext ==
    \/ Start
    \/ WaveTick

SpecWave == WaveInit /\ [][WaveNext]_vars

(***************************************************************************)
(* Properties of a game played with the keyboard (Spec).                   *)
(***************************************************************************)
\* the frame hist.last tells of has been executed
Ticked == hist.last.dt > 0

\* C1: after a hit, a contact of the player with a hostile while the dt
\* accumulated since the hit is below 500 ms leaves the hp as they are, and
\* a contact once 500 ms have accumulated takes ENEMY_DAMAGE away again.
C1_InvincibilityWindow ==
    (Ticked /\ hist.last.contact /\ hist.last.hitAge >= 0) =>
        IF hist.last.hitAge < 500
        THEN hist.last.hp1 = hist.last.hp0
        ELSE hist.last.hp1 = hist.last.hp0 - 10

\* C1 happens: contacts in three consecutive frames, the second 350 ms and
\* the third 700 ms after the hit, left the hp at 90, 90 and 80
C1_Witness ==
    /\ hist.contactHp = <<90, 90, 80>>
    /\ hist.last.hitAge = 700

\* the player and the hostiles stay where the clamp leaves them
InArena(e) ==
    /\ 0 <= e.x /\ e.x <= Cells(CANVAS_WIDTH - 1)
    /\ 0 <= e.y /\ e.y <= Cells(CANVAS_HEIGHT - 1)

\* the cell of a position is a cell of the grid
InCells(e) ==
    /\ 0 <= e.x /\ e.x < Cells(CANVAS_WIDTH)
    /\ 0 <= e.y /\ e.y < Cells(CANVAS_HEIGHT)

MovedActive(kind) == {e \in SeqRange(hist.last.moved[kind]) : e.active}

NoDuplicates(s) == \A i, k \in 1..Len(s) : s[i] = s[k] => i = k

\* the projectiles that were active and in reach of hostile e when the
\* Projectile x Hostile check of the last frame began
InReachOf(e) == {q \in MovedActive("projectiles") : Touches(q.x, q.y, e)}

\* C3: no hostile dies twice, and a frame awards the kill score and one
\* pickup once for every hostile that died in it, however many projectiles
\* were in reach of the hostile.
C3_KillRewardOnce ==
    /\ NoDuplicates(hist.killLog)
    /\ \A e \in SeqRange(game.enemies) : e.hp = 1 /\ e.active
    /\ Ticked =>
        /\ NoDuplicates([i \in 1..Len(hist.last.kills) |-> hist.last.kills[i].id])
        /\ hist.last.killScore = 10 * Len(hist.last.kills)
        /\ Len(hist.last.gemsSpawned) = Len(hist.last.kills)
        /\ \A k \in SeqRange(hist.last.kills) :
               Cardinality({m \in SeqRange(hist.last.gemsSpawned) : m.from = k.id}) = 1
        /\ hist.last.score1 =
               hist.last.score0 + 10 * Len(hist.last.kills) + 10 * hist.last.collected

\* C3 happens: two projectiles were in reach of the same hostile in one
\* frame, and the frame awarded 10 points and one pickup for it
C3_Witness ==
    /\ Ticked
    /\ \E e \in SeqRange(hist.last.atCheck) :
           /\ Cardinality(InReachOf(e)) >= 2
           /\ \E k \in SeqRange(hist.last.kills) : k.id = e.id
    /\ Len(hist.last.kills) = 1
    /\ hist.last.score1 = hist.last.score0 + 10
    /\ Len(hist.last.gemsSpawned) = 1

\* the index of the first hostile, in the order of the set, that was active
\* and in reach of q when the Projectile x Hostile check began; 0 for none
FirstInReach(q) ==
    LET S == {i \in 1..Len(hist.last.atCheck) :
                 /\ hist.last.atCheck[i].active
                 /\ Touches(q.x, q.y, hist.last.atCheck[i])}
    IN IF S = {} THEN 0 ELSE CHOOSE i \in S : \A k \in S : i <= k

\* projectile j meets hostile i in the last frame: it was active after the
\* movement, the hostile is the first one in its reach, and no projectile
\* before it in the set had the hostile in reach
Meets(j, i) ==
    LET q == hist.last.moved.projectiles[j]
    IN /\ q.active
       /\ i # 0
       /\ i = FirstInReach(q)
       /\ \A k \in 1..(j - 1) :
              LET r == hist.last.moved.projectiles[k]
              IN r.active => ~Touches(r.x, r.y, hist.last.atCheck[i])

Ids(s) == {e.id : e \in SeqRange(s)}

C8_AsStated ==
    /\ hist.render.occ = hist.render.prevOcc => hist.render.writes = {}
    /\ hist.render.writes =
           {pos \in Positions(hist.render.grid) \cup Positions(hist.render.before) :
               CellAt(hist.render.grid, pos.x, pos.y) # CellAt(hist.render.before, pos.x, pos.y)}

\* C8, amended: if no entity has changed its grid cell or its glyph since
\* the render before and the blinking player is drawn or hidden as it was,
\* a render writes no cell; and a render writes exactly the cells that
\* differ from the previous frame, after which the surface shows the frame.
C8_RenderDiff ==
    /\ (hist.render.occ = hist.render.prevOcc /\ hist.render.shown = hist.render.prevShown)
           => hist.render.writes = {}
    /\ hist.render.writes =
           {pos \in Positions(hist.render.grid) \cup Positions(hist.render.before) :
               CellAt(hist.render.grid, pos.x, pos.y) # CellAt(hist.render.before, pos.x, pos.y)}
    /\ dom.surface = hist.render.grid
    /\ game.prevGrid = hist.render.grid

\* C8 happens: a render with as many entities in the same cells as the
\* render before wrote nothing, while more than one cell is painted
C8_Witness ==
    /\ Ticked
    /\ hist.render.occ = hist.render.prevOcc
    /\ hist.render.shown = hist.render.prevShown
    /\ hist.render.writes = {}
    /\ Cardinality(hist.render.occ) >= 2

(***************************************************************************)
(* Properties of the waves (SpecWave).                                     *)
(***************************************************************************)
\* C6: for the wave w the game is in and every wave v before it, the spawn
\* interval is max(500, 2000 - (w - 1) * 150), at least 500 and at most the
\* interval of v, and the hostile cap is 3 + (w - 1) * 2 and at least the
\* cap of v.
C6_WaveEscalation ==
    LET w == game.wave
    IN /\ w >= 1
       /\ spawnRate(w) = (IF 2000 - (w - 1) * 150 > 500
                          THEN 2000 - (w - 1) * 150 ELSE 500)
       /\ spawnRate(w) >= 500
       /\ maxEnemies(w) = 3 + (w - 1) * 2
       /\ \A v \in 1..w :
              /\ spawnRate(v) >= spawnRate(w)
              /\ maxEnemies(v) <= maxEnemies(w)
       /\ (Ticked /\ hist.last.spawned) =>
              Len(game.enemies) <= 2 * (3 + (w - 1) * 2)

\* C6 happens: a frame has run in a wave where the floor of the spawn
\* interval applies
C6_Witness ==
    /\ hist.ticks > 0
    /\ game.wave >= 12
    /\ 2000 - (game.wave - 1) * 150 < 500
    /\ spawnRate(game.wave) = 500
    /\ maxEnemies(game.wave) >= 25

\* the last frame took the simulated time of a first run to exactly 20000 ms
ReachedWaveDuration == Ticked /\ hist.restarts = 0 /\ hist.simTime = 20000

\* C7 as it is stated: after the frame at which the simulated time of a
\* fresh run reaches exactly 20000 ms the wave is 2, the wave timer is 0
\* and the spawn counter of the wave is 0.
C7_AsStated ==
    ReachedWaveDuration =>
        /\ game.wave = 2
        /\ game.waveTimer = 0
        /\ game.enemiesSpawnedThisWave = 0

\* C7, amended: after the frame at which the simulated time of a fresh run
\* reaches exactly 20000 ms the wave is 2, the wave timer is 0 and the spawn
\* counter of the wave counts only what that frame spawned after the
\* rollover: it is 1 if the frame spawned a hostile and 0 if it did not.
C7_WaveRollover ==
    ReachedWaveDuration =>
        /\ game.wave = 2
        /\ game.waveTimer = 0
        /\ hist.last.rolled
        /\ game.enemiesSpawnedThisWave = IF hist.last.spawned THEN 1 ELSE 0

\* C7 happens: frames of 19000 and 1000 ms; the second one rolls the wave
\* over and spawns nothing
C7_Witness ==
    /\ ReachedWaveDuration
    /\ hist.last.dt = 1000
    /\ ~hist.last.spawned
    /\ game.wave = 2
    /\ game.enemiesSpawnedThisWave = 0
    /\ Len(game.enemies) = 1

(***************************************************************************)
(* Properties of the life cycle (SpecLife).                                *)
(***************************************************************************)
\* the step runs the body of a frame
TickRan == hist'.ticks = hist.ticks + 1

\* the step leaves the player, the entities, the wave, the score and the
\* timers as they are
Frozen ==
    /\ game'.player = game.player
    /\ game'.enemies = game.enemies
    /\ game'.projectiles = game.projectiles
    /\ game'.xpGems = game.xpGems
    /\ game'.wave = game.wave
    /\ game'.score = game.score
    /\ game'.waveTimer = game.waveTimer
    /\ game'.spawnTimer = game.spawnTimer

\* C9: a frame run while playing ends in gameover exactly when the hp of
\* the player are 0 or less after its cleanup; then no frame is requested
\* and the game-over overlay shows the wave and the score of that frame;
\* gameover is entered in no other way; while the state is gameover no
\* frame runs and the wave, the score, the player and the entity sets stay
\* as they are, and gameover is left only for a fresh run.
C9_GameOver ==
    [][ /\ (game.state = "playing" /\ TickRan) =>
               (game'.state = "gameover" <=> game'.player.hp <= 0)
        /\ (game.state # "gameover" /\ game'.state = "gameover") =>
               /\ game.state = "playing"
               /\ TickRan
               /\ game'.player.hp <= 0
               /\ dom'.raf = {}
               /\ game'.animationId = 0
               /\ dom'.gameOverOverlay =
                      [active |-> TRUE, wave |-> game'.wave, score |-> game'.score]
        /\ (game.state = "gameover" /\ game'.state = "gameover") =>
               /\ ~TickRan
               /\ dom'.raf = {}
               /\ game'.player = game.player
               /\ game'.enemies = game.enemies
               /\ game'.projectiles = game.projectiles
               /\ game'.xpGems = game.xpGems
               /\ game'.wave = game.wave
               /\ game'.score = game.score
        /\ (game.state = "gameover" /\ game'.state # "gameover") =>
               /\ hist'.restarts = hist.restarts + 1
               /\ game'.player = NewPlayer(Cells(15), Cells(7))
               /\ game'.wave = 1
               /\ game'.score = 0
      ]_vars

\* C9 happens: a frame has ended the run with 0 hp, the overlay shows its
\* wave and score, and time has passed since with no frame requested
C9_Witness ==
    /\ game.state = "gameover"
    /\ hist.last.ended
    /\ game.player.hp = 0
    /\ game.score > 0
    /\ dom.gameOverOverlay = [active |-> TRUE, wave |-> game.wave, score |-> game.score]
    /\ dom.raf = {}
    /\ hist.elapses > 0

\* C10: pause() while playing moves to paused and cancels the requested
\* frame; pause() in any other state and resume() in any state but paused
\* change nothing; no step taken while paused runs the body of a frame;
\* every step from paused to paused, and resume() itself, leaves the player,
\* the hostiles, projectiles and pickups, the wave, the score, the wave timer
\* and the spawn timer as they are.
C10_Pause ==
    /\ [](game.state = "playing" =>
              LET w == pause(World)
              IN /\ w.g.state = "paused"
                 /\ w.d.raf = {}
                 /\ w.g.animationId = 0
                 /\ [w.g EXCEPT !.state = "playing", !.animationId = game.animationId] = game)
    /\ [](game.state # "playing" => pause(World) = World)
    /\ [](game.state # "paused" => resume(World) = World)
    /\ [][ /\ (game.state = "playing" /\ game'.state = "paused") =>
                  (dom'.raf = {} /\ game'.animationId = 0 /\ Frozen /\ ~TickRan)
           /\ game.state = "paused" => ~TickRan
           /\ (game.state = "paused" /\ game'.state = "paused") =>
                  (Frozen /\ dom'.raf = {})
           /\ (game.state = "paused" /\ Resume) =>
                  (game'.state = "playing" /\ Frozen /\ dom'.raf # {})
         ]_vars

\* C10 happens: the game was paused after a frame had run, with hostiles in
\* the arena; time has passed and no frame is requested
C10_Witness ==
    /\ game.state = "paused"
    /\ hist.ticks > 0
    /\ hist.elapses > 0
    /\ Len(game.enemies) > 0
    /\ dom.raf = {}
    /\ game.animationId = 0

\* C11: the dt of the first frame after resume(), which is the frame that
\* call has requested, is the time that has passed since that call,
\* whatever the time spent paused; in that frame the wave
\* timer and the spawn timer advance by that dt (or are set to 0 by a
\* rollover or a spawn), the invincibility timer runs down by it, and the
\* player and the hostiles that were in the arena (a knockback can leave one
\* outside, which the clamp brings back) move no farther than their speeds
\* allow in it.
C11_Resume ==
    [][ (TickRan /\ hist'.last.sinceResume >= 0) =>
            /\ hist'.last.dt = hist'.last.sinceResume
            /\ hist'.last.dt = clock' - hist.resumedAt
            /\ game'.lastTimestamp = clock'
            /\ game'.waveTimer =
                   IF hist'.last.rolled THEN 0 ELSE game.waveTimer + hist'.last.dt
            /\ game'.spawnTimer =
                   IF hist'.last.spawned THEN 0 ELSE game.spawnTimer + hist'.last.dt
            /\ (game.player.invincible /\ game'.player.hp = game.player.hp) =>
                   game'.player.invincibleTimer =
                       game.player.invincibleTimer - hist'.last.dt
            /\ Abs(hist'.last.moved.player.x - game.player.x)
                   <= PLAYER_SPEED * hist'.last.dt
            /\ Abs(hist'.last.moved.player.y - game.player.y)
                   <= PLAYER_SPEED * hist'.last.dt
            /\ \A i \in 1..Len(game.enemies) :
                   InArena(game.enemies[i]) =>
                       /\ Abs(hist'.last.moved.enemies[i].x - game.enemies[i].x)
                              <= ENEMY_SPEED * hist'.last.dt
                       /\ Abs(hist'.last.moved.enemies[i].y - game.enemies[i].y)
                              <= ENEMY_SPEED * hist'.last.dt
      ]_vars

\* C11 happens: the game was paused for 1000 ms and the frame 350 ms after
\* the resume had a dt of 350 ms, by which a hostile has walked
C11_Witness ==
    /\ Ticked
    /\ hist.last.pausedFor = 1000
    /\ hist.last.sinceResume = 350
    /\ hist.last.dt = 350
    /\ Len(hist.last.pre.enemies) > 0
    /\ game.waveTimer = hist.last.pre.waveTimer + 350

\* what destroy() does in the state the game is in: the state is idle, no
\* frame is requested, the listeners are detached, the overlays are as they
\* were (no game-over overlay is shown that was not), and the run is not
\* finalized: the player, the entities, the wave, the score and the timers
\* stay
DestroyHalts ==
    LET w == destroy(World)
    IN /\ w.g.state = "idle"
       /\ w.d.raf = {}
       /\ w.g.animationId = 0
       /\ ~w.d.keydown /\ ~w.d.keyup
       /\ w.d.gameOverOverlay = dom.gameOverOverlay
       /\ w.d.pauseOverlay = dom.pauseOverlay
       /\ [w.g EXCEPT !.state = game.state, !.animationId = game.animationId] = game

\* a paused game can be resumed
PausedResumes ==
    game.state = "paused" =>
        (resume(World).g.state = "playing" /\ resume(World).d.raf # {})

\* C12 as it is stated: destroy() is accepted in every state, cancels the
\* requested frame and shows no game-over overlay; once destroy() has been
\* called no frame ever runs on the game again; a paused game can be
\* resumed.
C12_AsStated ==
    /\ []DestroyHalts
    /\ []PausedResumes
    /\ [][hist.destroyedIn # "" => ~TickRan]_vars

\* C12, amended: destroy() is accepted in every state, cancels the requested
\* frame and shows no game-over overlay; once destroy() has been called no
\* frame runs on the game until start() is called on it again, which leaves
\* idle for playing with a frame requested; a paused game can be resumed.
C12_Destroy ==
    /\ []DestroyHalts
    /\ []PausedResumes
    /\ [](hist.halted => (game.state = "idle" /\ dom.raf = {} /\ game.animationId = 0))
    /\ [][ /\ hist.halted => ~TickRan
           /\ (hist.halted /\ ~hist'.halted) =>
                  (game'.state = "playing" /\ Cardinality(dom'.raf) = 1)
         ]_vars

\* C12 happens: destroy() was called while the game was playing, after a
\* frame had run; time has passed since and no frame is requested
C12_Witness ==
    /\ hist.halted
    /\ hist.destroyedIn = "playing"
    /\ game.state = "idle"
    /\ dom.raf = {}
    /\ hist.last.dt > 0
    /\ hist.elapses > 0

\* a run that has just begun: the player at the centre with full hp and not
\* invincible, no entities, wave 1, score 0, timers 0, no key held
FreshRun(g) ==
    /\ g.player.x = Cells(15) /\ g.player.y = Cells(7)
    /\ g.player.hp = 100
    /\ ~g.player.invincible /\ g.player.invincibleTimer = 0
    /\ g.player.active
    /\ g.enemies = <<>> /\ g.projectiles = <<>> /\ g.xpGems = <<>>
    /\ g.wave = 1 /\ g.score = 0
    /\ g.waveTimer = 0 /\ g.spawnTimer = 0
    /\ g.enemiesSpawnedThisWave = 0

\* C13: every step that enters playing from idle or from gameover begins a
\* fresh run with exactly one frame requested, which the game holds the id
\* of, and the elapsed-time base at the time of the step.
C13_FreshRun ==
    [][ (game.state \in {"idle", "gameover"} /\ game'.state = "playing") =>
            /\ FreshRun(game')
            /\ Cardinality(dom'.raf) = 1
            /\ dom'.raf = {game'.animationId}
            /\ game'.lastTimestamp = clock'
            /\ dom'.keydown /\ dom'.keyup
      ]_vars

\* C13 happens: a run that had earned a score has ended, and R has begun a
\* fresh one, which no frame has run in yet
C13_Witness ==
    /\ game.state = "playing"
    /\ hist.restarts = 1
    /\ hist.destroyedIn = ""
    /\ hist.last.ended
    /\ hist.last.score1 > 0
    /\ FreshRun(game)
    /\ Cardinality(dom.raf) = 1
    /\ ~dom.gameOverOverlay.active

\* C14: a frame leaves the wave as it is or, when it rolls the wave over,
\* raises it by 1; any other step that changes the wave is an init(), which
\* sets it to 1; pause(), resume() and gameOver() leave it as it is.
C14_WaveMonotone ==
    /\ [](pause(World).g.wave = game.wave)
    /\ [](resume(World).g.wave = game.wave)
    /\ [](gameOver(World).g.wave = game.wave)
    /\ [][ /\ TickRan =>
                  game'.wave = IF hist'.last.rolled THEN game.wave + 1 ELSE game.wave
           /\ (~TickRan /\ game'.wave # game.wave) =>
                  (hist'.restarts = hist.restarts + 1 /\ game'.wave = 1)
           /\ (~TickRan /\ hist'.restarts = hist.restarts) => game'.wave = game.wave
           /\ hist'.restarts = hist.restarts => game'.wave >= game.wave
         ]_vars

\* C14 happens: a frame has rolled the wave over to 2, and the game, paused
\* since, is in wave 2
C14_Witness ==
    /\ game.state = "paused"
    /\ hist.ticks > 0
    /\ hist.last.rolled
    /\ hist.last.dt > 0
    /\ game.wave = 2
    /\ hist.simTime >= WAVE_DURATION

\* C15: in the spawn update of every frame a hostile is spawned exactly when
\* the spawn timer has reached the spawn interval of the wave and the number
\* of active hostiles is below twice the hostile cap of the wave, the
\* hostiles the frame has deactivated not being counted; a frame spawns at
\* most one hostile, and the spawn timer is 0 after a frame that spawned and
\* has advanced by dt after one that did not.
C15_AsStated ==
    [][ TickRan =>
            /\ hist'.last.gate.timer = game.spawnTimer + hist'.last.dt
            /\ hist'.last.gate.rate = spawnRate(game'.wave)
            /\ hist'.last.gate.cap = 2 * maxEnemies(game'.wave)
            /\ hist'.last.gate.active = Len(game.enemies) - Len(hist'.last.kills)
            /\ hist'.last.spawned <=>
                   /\ hist'.last.gate.timer >= hist'.last.gate.rate
                   /\ hist'.last.gate.active < hist'.last.gate.cap
            /\ Cardinality(Ids(game'.enemies) \ Ids(game.enemies)) =
                   IF hist'.last.spawned THEN 1 ELSE 0
            /\ game'.spawnTimer =
                   IF hist'.last.spawned THEN 0 ELSE game.spawnTimer + hist'.last.dt
      ]_vars

(***************************************************************************)
(* Properties of the order within a frame (Spec).                          *)
(***************************************************************************)
\* the player once the input phase of the frame is done
AfterInput == handleInput(game.player, game.keys, hist'.last.dt)

\* the projectile the frame fires, where the movement phase leaves it
FiredAndMoved ==
    Projectile_update(attack(AfterInput, hist.nextId), hist'.last.dt)

\* C17: every frame run while playing goes, once each and in this order,
\* through input and player movement, auto-attack, the invincibility
\* countdown, hostile movement, projectile movement, collisions, wave and
\* spawn update, cleanup and the game-over check, and then, unless it ends
\* the run, through render, HUD publish and the request of the next frame.
\* Every phase works on what the phases before it have left: the shot is
\* fired from where the input has moved the player to and is moved in the
\* same frame, the hostiles seek the player where it has moved to, the
\* collisions are those of the positions after the movement, the spawn
\* check finds the hostile set with the dead of the collisions still in
\* it, the cleanup leaves active entities only, and the render draws the
\* entities the cleanup has left.
C17_PhaseOrder ==
    [][ (game.state = "playing" /\ TickRan) =>
            /\ hist'.last.phases =
                   <<"input", "attack", "invincibility", "hostiles", "projectiles",
                     "collisions", "wave", "cleanup", "game over">>
                   \o (IF hist'.last.ended THEN <<>>
                       ELSE <<"render", "hud", "schedule">>)
            /\ hist'.last.moved.player = [x |-> AfterInput.x, y |-> AfterInput.y]
            /\ hist'.last.fired =>
                   \E j \in 1..Len(hist'.last.moved.projectiles) :
                       hist'.last.moved.projectiles[j] = Pos(FiredAndMoved)
            /\ \A i \in 1..Len(game.enemies) :
                   hist'.last.moved.enemies[i] =
                       Pos(Enemy_update(game.enemies[i], hist'.last.dt, AfterInput))
            /\ hist'.last.contact <=>
                   \E e \in SeqRange(hist'.last.moved.enemies) :
                       Touches(hist'.last.moved.player.x, hist'.last.moved.player.y, e)
            /\ hist'.last.gate.length = Len(game.enemies)
            /\ hist'.last.gate.active = Len(game.enemies) - Len(hist'.last.kills)
            /\ \A e \in SeqRange(game'.enemies) \cup SeqRange(game'.projectiles)
                        \cup SeqRange(game'.xpGems) : e.active
            /\ hist'.last.ended <=> game'.player.hp <= 0
            /\ hist'.last.ended =>
                   /\ game'.state = "gameover"
                   /\ dom'.surface = dom.surface
                   /\ hist'.render = hist.render
                   /\ dom'.hud = dom.hud
                   /\ dom'.raf = {}
            /\ ~hist'.last.ended =>
                   /\ game'.state = "playing"
                   /\ dom'.surface = BuildGrid(game', clock')
                   /\ dom'.hud = [wave |-> game'.wave, score |-> game'.score,
                                  hp |-> HpBar(hpBlocks(game'.player.hp))]
                   /\ Cardinality(dom'.raf) = 1
      ]_vars

\* C17 happens: a frame has fired, has moved hostiles, has found the player
\* in contact with one, has removed an entity and has been rendered
C17_Witness ==
    /\ Ticked
    /\ Len(hist.last.phases) = 12
    /\ hist.last.fired
    /\ hist.last.contact
    /\ Len(hist.last.moved.enemies) > 0
    /\ hist.last.removed # {}
    /\ ~hist.last.ended
    /\ game.state = "playing"

\* the least element of a set of indices
FirstOf(S) == CHOOSE i \in S : \A k \in S : i <= k

\* the hostiles the player touches once the movement of the frame is done
TouchedAfterMove ==
    {i \in 1..Len(hist'.last.moved.enemies) :
        Touches(hist'.last.moved.player.x, hist'.last.moved.player.y,
                hist'.last.moved.enemies[i])}

\* the i-th hostile as the Player x Hostile check leaves it: the first one
\* in touch is knocked back if the player takes the damage
AfterContact(i) ==
    IF /\ ~Player_update(game.player, hist'.last.dt).invincible
       /\ i \in TouchedAfterMove
       /\ \A k \in TouchedAfterMove : i <= k
    THEN LET e == hist'.last.moved.enemies[i]
             k == Knockback(e, hist'.last.moved.player.x, hist'.last.moved.player.y)
         IN [e EXCEPT !.x = k.x, !.y = k.y]
    ELSE hist'.last.moved.enemies[i]

\* C18: every frame makes the three collision checks once each, Player x
\* Hostile, then Projectile x Hostile, then Player x Pickup.  The second
\* check finds the hp the first one has left and the hostiles where its
\* knockback has put them, and its kills are of hostiles in reach of a
\* projectile there; the third check finds the score with the kills in it
\* and adds the value of every pickup in reach, of those the frame began
\* with, to it.
C18_CollisionOrder ==
    [][ (game.state = "playing" /\ TickRan) =>
            /\ hist'.last.checks =
                   <<"player-hostile", "projectile-hostile", "player-pickup">>
            /\ hist'.last.atCheckHp = game'.player.hp
            /\ hist'.last.atCheckHp =
                   IF TouchedAfterMove # {}
                      /\ ~Player_update(game.player, hist'.last.dt).invincible
                   THEN game.player.hp - ENEMY_DAMAGE ELSE game.player.hp
            /\ Len(hist'.last.atCheck) = Len(hist'.last.moved.enemies)
            /\ \A i \in 1..Len(hist'.last.atCheck) :
                   hist'.last.atCheck[i] = AfterContact(i)
            /\ \A k \in SeqRange(hist'.last.kills) :
                   \E e \in SeqRange(hist'.last.atCheck) :
                       /\ e.id = k.id /\ e.x = k.x /\ e.y = k.y
                       /\ \E q \in SeqRange(hist'.last.moved.projectiles) :
                              q.id = k.by /\ q.active /\ Touches(q.x, q.y, e)
            /\ hist'.last.atGems.score = game.score + KILL_REWARD * Len(hist'.last.kills)
            /\ hist'.last.atGems.gems = Len(game.xpGems) + Len(hist'.last.kills)
            /\ hist'.last.collected =
                   Cardinality({k \in 1..Len(game.xpGems) :
                                   Collects(hist'.last.moved.player.x,
                                            hist'.last.moved.player.y, game.xpGems[k])})
            /\ game'.score = hist'.last.atGems.score + GEM_VALUE * hist'.last.collected
      ]_vars

\* C18 happens: in one frame the player lost hp to a hostile, which was
\* knocked back, a projectile killed a hostile and the player collected a
\* pickup: 10 hp less, 20 points more
C18_Witness ==
    /\ Ticked
    /\ hist.ticks > 0
    /\ hist.last.hp1 = hist.last.hp0 - 10
    /\ \E i \in 1..Len(hist.last.atCheck) :
           hist.last.atCheck[i] # hist.last.moved.enemies[i]
    /\ Len(hist.last.kills) = 1
    /\ hist.last.collected = 1
    /\ hist.last.score1 = hist.last.score0 + 20
    /\ hist.last.atGems.score = hist.last.score0 + 10

\* the player is invincible when the Player x Hostile check of the frame
\* runs: the frame has run the timer down before
InvincibleAtCheck ==
    game.player.invincible /\ game.player.invincibleTimer > hist'.last.dt

\* hostile e1 is hostile e0 moved by 2 cells away from (px, py), to within
\* a thousandth of a cell in each coordinate; a hostile at (px, py) is
\* moved by 2 cells to the right, the direction of the angle atan2(0, 0)
DisplacedBy2(e0, e1, px, py) ==
    IF e0.x = px /\ e0.y = py
    THEN e1.x = e0.x + 2000 /\ e1.y = e0.y
    ELSE /\ Abs((e1.x - e0.x) * (e1.x - e0.x) + (e1.y - e0.y) * (e1.y - e0.y)
                 - 2000 * 2000) <= 6000
         /\ Abs((e1.x - e0.x) * (e0.y - py) - (e1.y - e0.y) * (e0.x - px))
                 <= Abs(e0.x - px) + Abs(e0.y - py)
         /\ (e1.x - e0.x) * (e0.x - px) + (e1.y - e0.y) * (e0.y - py) > 0

\* C21: in a frame in which a hostile is within 0.8 of the player on both
\* axes once the movement is done and the player is not invincible, the
\* player loses exactly 10 hp and is invincible for 500 ms; the first such
\* hostile in the order of the set is moved by 2 cells away from the
\* player and no other hostile is moved by the check.  In a frame in which
\* the player is invincible, or touches no hostile, the check changes
\* neither the hp nor the position of a hostile.
C21_PlayerHit ==
    [][ (game.state = "playing" /\ TickRan) =>
            /\ \A e \in SeqRange(hist'.last.moved.enemies) : e.active
            /\ Len(hist'.last.atCheck) = Len(hist'.last.moved.enemies)
            /\ IF TouchedAfterMove # {} /\ ~InvincibleAtCheck
               THEN /\ game'.player.hp = game.player.hp - 10
                    /\ game'.player.invincible
                    /\ game'.player.invincibleTimer = 500
                    /\ \A i \in 1..Len(hist'.last.atCheck) :
                           IF i = FirstOf(TouchedAfterMove)
                           THEN /\ hist'.last.atCheck[i].id = hist'.last.moved.enemies[i].id
                                /\ hist'.last.atCheck[i].active
                                /\ DisplacedBy2(hist'.last.moved.enemies[i],
                                                hist'.last.atCheck[i],
                                                hist'.last.moved.player.x,
                                                hist'.last.moved.player.y)
                           ELSE hist'.last.atCheck[i] = hist'.last.moved.enemies[i]
               ELSE /\ game'.player.hp = game.player.hp
                    /\ hist'.last.atCheck = hist'.last.moved.enemies
                    /\ game'.player.invincible = InvincibleAtCheck
      ]_vars

\* C21 happens: in the last frame two hostiles touched the player, who was
\* not invincible and has lost 10 of 100 hp; the first of them has been
\* moved and the second one has not
C21_Witness ==
    /\ Ticked
    /\ game.state = "playing"
    /\ hist.last.hp0 = 100
    /\ game.player.hp = 90
    /\ game.player.invincibleTimer = 500
    /\ \E i, k \in 1..Len(hist.last.moved.enemies) :
           /\ i < k
           /\ Touches(hist.last.moved.player.x, hist.last.moved.player.y,
                      hist.last.moved.enemies[i])
           /\ Touches(hist.last.moved.player.x, hist.last.moved.player.y,
                      hist.last.moved.enemies[k])
           /\ hist.last.atCheck[i] # hist.last.moved.enemies[i]
           /\ hist.last.atCheck[k] = hist.last.moved.enemies[k]

\* the entities of the three sets of game g, and their ids
Entities(g) == SeqRange(g.enemies) \cup SeqRange(g.projectiles) \cup SeqRange(g.xpGems)

EntityIds(g) == {e.id : e \in Entities(g)}

\* what frame L has deactivated entity id for: a projectile that the
\* movement has deactivated or that has hit a hostile, a hostile that a hit
\* has left without hp, a pickup of game g in reach of the player
Deactivated(L, g, id) ==
    \/ \E q \in SeqRange(L.moved.projectiles) : q.id = id /\ ~q.active
    \/ \E n \in 1..Len(L.hits) : L.hits[n].by = id
    \/ \E n \in 1..Len(L.hits) : L.hits[n].id = id /\ L.hits[n].hp1 <= 0
    \/ \E m \in SeqRange(g.xpGems) :
           m.id = id /\ Collects(L.moved.player.x, L.moved.player.y, m)

\* C22: every entity of the hostile, projectile and pickup sets is active
\* whenever no frame is running, so that a render, which follows the
\* cleanup, draws active entities only.  Within a run (init() begins a new
\* one with empty sets) an entity leaves its set only in the cleanup of a
\* frame, which drops exactly the entities that the frame has
\* deactivated; an entity that enters a set is a new one, so that none
\* that was dropped comes back.
C22_Removal ==
    /\ [](\A e \in Entities(game) : e.active)
    /\ [][ /\ (EntityIds(game) \ EntityIds(game') # {}) =>
                  \/ hist'.restarts = hist.restarts + 1
                  \/ /\ TickRan
                     /\ \E n \in 1..Len(hist'.last.phases) :
                            hist'.last.phases[n] = "cleanup"
                     /\ EntityIds(game) \ EntityIds(game') \subseteq hist'.last.removed
           /\ TickRan =>
                  /\ hist'.last.removed \cap EntityIds(game') = {}
                  /\ \A id \in hist'.last.removed : Deactivated(hist'.last, game, id)
                  /\ \A id \in EntityIds(game) :
                         Deactivated(hist'.last, game, id) => id \in hist'.last.removed
                  /\ ~hist'.last.ended =>
                         \A o \in hist'.render.occ :
                             o.id = 0 \/ \E e \in Entities(game') : e.id = o.id /\ e.active
           /\ \A id \in EntityIds(game') \ EntityIds(game) : id >= hist.nextId
           /\ hist'.nextId >= hist.nextId
           /\ \A id \in EntityIds(game) : id < hist.nextId
      ]_vars

\* C22 happens: the cleanup of the last frame has dropped a hostile that a
\* projectile has killed, that projectile and a pickup the player has
\* collected, and has kept a hostile and the pickup of the kill
C22_Witness ==
    /\ Ticked
    /\ game.state = "playing"
    /\ Len(hist.last.kills) = 1
    /\ hist.last.collected = 1
    /\ Cardinality(hist.last.removed) = 3
    /\ hist.last.removed \cap EntityIds(game) = {}
    /\ Len(game.enemies) > 0
    /\ \E m \in SeqRange(game.xpGems) :
           \E k \in SeqRange(hist.last.gemsSpawned) : m.id = k.id

\* the priority of a glyph in a cell, and the style it is drawn in
Rank(char) ==
    CASE char = CHAR_PLAYER -> 4
      [] char = CHAR_ENEMY -> 3
      [] char = CHAR_PROJECTILE -> 2
      [] char = CHAR_XP -> 1

ClassOf(char) ==
    CASE char = CHAR_PLAYER -> "game-player"
      [] char = CHAR_ENEMY -> "game-enemy"
      [] char = CHAR_PROJECTILE -> "game-projectile"
      [] char = CHAR_XP -> "game-xp"

\* the entities of occupancy occ whose floored position is the cell (x, y)
InCell(occ, x, y) == {o \in occ : o.cell.x = x /\ o.cell.y = y}

\* what the cell (x, y) is to show for the entities of occ: the one of the
\* highest priority, the empty cell if there is none
TopOf(occ, x, y) ==
    IF InCell(occ, x, y) = {} THEN EmptyCell
    ELSE LET top == CHOOSE o \in InCell(occ, x, y) :
                        \A u \in InCell(occ, x, y) : Rank(u.char) <= Rank(o.char)
         IN [char |-> top.char, class |-> ClassOf(top.char)]

\* no cell outside the grid is painted or written
NothingOffGrid ==
    /\ \A c \in dom.surface : InGrid(c)
    /\ \A pos \in hist.render.writes : InGrid(pos)

\* the entities the last render has drawn: all but a player that blinks
DrawnAtRender == {o \in hist.render.occ : o.id # 0 \/ hist.render.shown}

\* C23 as it is stated: after a render every cell of the grid shows the
\* entity of the highest priority whose floored position is the cell, the
\* player before the hostiles before the projectiles before the pickups,
\* and the empty cell if there is none; no cell outside the grid is drawn.
C23_AsStated ==
    /\ \A x \in 0..(CANVAS_WIDTH - 1), y \in 0..(CANVAS_HEIGHT - 1) :
           CellAt(dom.surface, x, y) = TopOf(hist.render.occ, x, y)
    /\ NothingOffGrid

\* C23, amended: after a render every cell of the grid shows the entity of
\* the highest priority, of those the render draws, whose floored position
\* is the cell, and the empty cell if there is none; the render draws the
\* hostiles, the projectiles and the pickups, and the player unless the
\* player is invincible and the clock is in an odd slot of 100 ms.  A
\* player that is not invincible is drawn, whatever else is in the cell.
\* No cell outside the grid is drawn or written.
C23_RenderLayering ==
    /\ [](/\ \A x \in 0..(CANVAS_WIDTH - 1), y \in 0..(CANVAS_HEIGHT - 1) :
                 CellAt(dom.surface, x, y) = TopOf(DrawnAtRender, x, y)
          /\ NothingOffGrid
          /\ hist.render.shown =>
                 \A o \in hist.render.occ :
                     o.id = 0 => CellAt(dom.surface, o.cell.x, o.cell.y)
                                    = [char |-> CHAR_PLAYER, class |-> "game-player"])
    /\ [][(TickRan /\ ~hist'.last.ended) =>
              /\ hist'.render.occ = Occupancy(game')
              /\ hist'.render.shown =
                     (~game'.player.invincible \/ (clock' \div 100) % 2 = 0)
         ]_vars

\* C23 happens: the render of the last frame has found the blinking
\* player and a hostile in one cell and has shown the hostile, while
\* another entity was outside the grid
C23_Witness ==
    /\ Ticked
    /\ game.state = "playing"
    /\ hist.render.occ = Occupancy(game)
    /\ ~hist.render.shown
    /\ \E o \in hist.render.occ :
           /\ o.id = 0
           /\ \E u \in InCell(hist.render.occ, o.cell.x, o.cell.y) : u.char = CHAR_ENEMY
           /\ CellAt(dom.surface, o.cell.x, o.cell.y) =
                  [char |-> CHAR_ENEMY, class |-> "game-enemy"]
    /\ \E u \in hist.render.occ : ~InGrid(u.cell)

\* C24: the simulated time between two consecutive launches of a run, which
\* is the sum of the dt of the frames executed after the earlier launch up to
\* and including the frame of the later one, is at least the attack cooldown
\* of 350 ms; the time the game spends paused does not count toward it.
C24_AsStated ==
    (hist.last.fired /\ hist.last.shotGap >= 0) =>
        hist.last.shotGap >= ATTACK_COOLDOWN

\* the attack of the frame is due: performance.now() of the frame is at
\* least the cooldown past the last launch
Expired == clock' - game.player.lastAttack >= ATTACK_COOLDOWN

\* the facing direction, in ten-thousandths, scaled to the projectile speed
\* in thousandths of a cell per second
Scaled(d) == RoundDiv(d * PROJECTILE_SPEED * 1000, Dir(1))

\* where a projectile launched in the frame is once the frame has moved it:
\* half a cell from the player along the facing, then dt at its velocity
ShotAfterMove(at, facing, dt) ==
    at + RoundDiv(facing * 500, Dir(1)) + RoundDiv(Scaled(facing) * dt, 1000)

\* C25: a frame whose attack is due adds exactly one projectile and any other
\* frame adds none; the new projectile starts half a cell from the player's
\* position along the facing direction, and its velocity is the facing
\* direction scaled to the projectile speed (30 cells per second).
C25_AutoAttack ==
    [][ (game.state = "playing" /\ TickRan) =>
            LET n == Len(game.projectiles)
                m == hist'.last.moved.projectiles
                at == hist'.last.moved.player
                facing == game'.player.lastDirection
            IN /\ hist'.last.fired <=> Expired
               /\ Len(m) = n + (IF Expired THEN 1 ELSE 0)
               /\ \A i \in 1..n : m[i].id = game.projectiles[i].id
               /\ Ids(game'.projectiles) \subseteq Ids(m)
               /\ game'.player.lastAttack =
                      IF Expired THEN clock' ELSE game.player.lastAttack
               /\ Expired =>
                      /\ m[n + 1].id \notin EntityIds(game)
                      /\ m[n + 1].x = ShotAfterMove(at.x, facing.x, hist'.last.dt)
                      /\ m[n + 1].y = ShotAfterMove(at.y, facing.y, hist'.last.dt)
                      /\ \A q \in SeqRange(game'.projectiles) :
                             q.id = m[n + 1].id =>
                                 /\ q.vx = Scaled(facing.x)
                                 /\ q.vy = Scaled(facing.y)
      ]_vars

\* C25 happens: the last frame, of 100 ms with the player walking down, has
\* fired; the projectile flies down at 30 cells per second from half a cell
\* below the player and has flown 3 cells
C25_Witness ==
    /\ Ticked
    /\ game.state = "playing"
    /\ hist.last.fired
    /\ hist.last.dt = 100
    /\ game.player.lastDirection = [x |-> 0, y |-> Dir(1)]
    /\ game.player.lastAttack = clock
    /\ \E q \in SeqRange(game.projectiles) :
           /\ q.vx = 0
           /\ q.vy = 30000
           /\ q.x = game.player.x
           /\ q.y = game.player.y + 500 + 3000

\* the input vector of a frame with these keys held, normalised: each
\* component is -1, 0 or 1, and 1 / sqrt(2) = 0.7071 replaces 1 on a diagonal
UnitInput(keys) ==
    LET dx == InputVector(keys).x
        dy == InputVector(keys).y
    IN IF dx # 0 /\ dy # 0 THEN [x |-> dx * 7071, y |-> dy * 7071]
       ELSE [x |-> Dir(dx), y |-> Dir(dy)]

\* a vector of length 1, within the rounding of its components
IsUnit(v) == Abs(v.x * v.x + v.y * v.y - Dir(1) * Dir(1)) <= Abs(v.x) + Abs(v.y)

\* C26: a frame whose input vector is not zero sets the facing direction to
\* the normalised input vector, and a frame whose input vector is zero (no
\* movement key held, or opposite keys cancelling) leaves it as it is; the
\* facing changes in no other step of a run, and a new run begins with the
\* facing (1, 0).  The facing is at every moment a unit vector, and every
\* projectile has a velocity that is not zero.
C26_Facing ==
    /\ [](/\ IsUnit(game.player.lastDirection)
          /\ \A q \in SeqRange(game.projectiles) : q.vx # 0 \/ q.vy # 0)
    /\ [][ /\ (game.state = "playing" /\ TickRan) =>
                  game'.player.lastDirection =
                      IF InputVector(game.keys) = [x |-> 0, y |-> 0]
                      THEN game.player.lastDirection
                      ELSE UnitInput(game.keys)
           /\ game'.player.lastDirection # game.player.lastDirection =>
                  \/ TickRan /\ InputVector(game.keys) # [x |-> 0, y |-> 0]
                  \/ /\ hist'.restarts = hist.restarts + 1
                     /\ game'.player.lastDirection = [x |-> Dir(1), y |-> 0]
         ]_vars

\* C26 happens: the left and right keys are held and cancel; the last frame
\* has left the player where it was and facing down, as the frame before it
\* had turned it; the projectile that frame fired flies downwards
C26_Witness ==
    /\ Ticked
    /\ game.state = "playing"
    /\ game.keys = {"KeyA", "KeyD"}
    /\ hist.last.moved.player.x = hist.last.pre.x
    /\ hist.last.moved.player.y = hist.last.pre.y
    /\ game.player.y > Cells(CANVAS_HEIGHT \div 2)
    /\ game.player.lastDirection = [x |-> 0, y |-> Dir(1)]
    /\ ~hist.last.fired
    /\ \E q \in SeqRange(game.projectiles) : q.vx = 0 /\ q.vy > 0

\* the pickups there are when the Player x Pickup check of frame L runs: the
\* ones the frame began with and the ones its kills have dropped
GemsAtCheck(L) ==
    {[id |-> m.id, x |-> m.x, y |-> m.y] : m \in SeqRange(L.pre.gems)}
        \cup {[id |-> m.id, x |-> m.x, y |-> m.y] : m \in SeqRange(L.gemsSpawned)}

\* the pickups within 1.5 of the player on both axes at that check
InReach(L) ==
    {m \in GemsAtCheck(L) : Collects(L.moved.player.x, L.moved.player.y, m)}

\* C27: a pickup that is within 1.5 of the player on both axes when the
\* Player x Pickup check of a frame runs is deactivated, and removed by the
\* frame, and its value of 10 is added to the score once; a pickup that is
\* not is left as it is, and a frame removes a pickup in no other way.
C27_AsStated ==
    Ticked =>
        /\ \A m \in GemsAtCheck(hist.last) :
               m.id \in hist.last.removed <=> m \in InReach(hist.last)
        /\ hist.last.score1 =
               hist.last.atGems.score + GEM_VALUE * Cardinality(InReach(hist.last))

\* a position on one of the four edges of the arena: one coordinate is that
\* of the edge, the other one lies along it
OnEdge(e) ==
    \/ e.y = 0 /\ e.x >= 0 /\ e.x < Cells(CANVAS_WIDTH)
    \/ e.x = Cells(CANVAS_WIDTH - 1) /\ e.y >= 0 /\ e.y < Cells(CANVAS_HEIGHT)
    \/ e.y = Cells(CANVAS_HEIGHT - 1) /\ e.x >= 0 /\ e.x < Cells(CANVAS_WIDTH)
    \/ e.x = 0 /\ e.y >= 0 /\ e.y < Cells(CANVAS_HEIGHT)

\* C28: a hostile that a frame has spawned is on one of the four edges of the
\* arena (y = 0, x = W - 1, y = H - 1 or x = 0, the other coordinate along
\* that edge), is active and has 1 hit point.
C28_SpawnPosition ==
    [][ (game.state = "playing" /\ TickRan) =>
            /\ hist'.last.spawned =>
                   \E e \in SeqRange(game'.enemies) : e.id \notin Ids(game.enemies)
            /\ \A e \in SeqRange(game'.enemies) :
                   e.id \notin Ids(game.enemies) =>
                       /\ hist'.last.spawned
                       /\ OnEdge(e)
                       /\ e.active
                       /\ e.hp = 1
      ]_vars

\* C28 happens: the last frame has spawned a hostile at the left end of the
\* bottom edge, and there is one on the right edge as well
C28_Witness ==
    /\ Ticked
    /\ hist.last.spawned
    /\ \E e \in SeqRange(game.enemies) :
           /\ e.id = hist.nextId - 1
           /\ e.x = 0
           /\ e.y = Cells(CANVAS_HEIGHT - 1)
           /\ e.active
           /\ e.hp = 1
    /\ \E e \in SeqRange(game.enemies) : e.x = Cells(CANVAS_WIDTH - 1)

\* C29: whatever the order of start, pause, resume, restart, close, key
\* events and frame callbacks, at most one frame callback is pending; one is
\* pending exactly when the state is playing, and it is the one animationId
\* names; the body of a frame runs only from the state playing, and a step
\* taken in another state changes the entities, the score and the timers
\* only by beginning a run anew.
C29_Scheduling ==
    /\ [](/\ Cardinality(dom.raf) <= 1
          /\ dom.raf # {} <=> game.state = "playing"
          /\ dom.raf # {} => dom.raf = {game.animationId})
    /\ [][ game.state # "playing" =>
               /\ ~TickRan
               /\ Frozen \/ hist'.restarts = hist.restarts + 1
         ]_vars

\* C29 happens: the run has been begun anew once, and the game has since
\* been paused and resumed; the frame the resume requested has run and has
\* requested the one frame that is pending
C29_Witness ==
    /\ Ticked
    /\ game.state = "playing"
    /\ hist.restarts = 1
    /\ hist.last.sinceResume >= 0
    /\ hist.pausedAt >= 0
    /\ Cardinality(dom.raf) = 1
    /\ dom.raf = {game.animationId}

\* C30: whatever the order of Escape presses, pause-menu buttons and the
\* minimising, restoring, closing and opening of the window, the game state
\* is paused whenever the pause overlay is shown.
C30_AsStated == dom.pauseOverlay => game.state = "paused"

\* C31: whatever the order of game over, R-key restart, closing the window,
\* the restart of the pause menu and start, the game-over overlay is shown
\* only while the game state is gameover.
C31_AsStated == dom.gameOverOverlay.active => game.state = "gameover"

\* C32: whatever the order of minimising, restoring, closing and opening the
\* window and of key events, the game is not in the state playing while its
\* window is minimised or closed.
C32_AsStated == game.state = "playing" => ~dom.win.isMinimized

\* C33: at the end of every frame, and so in every state, the hostile set
\* holds at most 2 x (3 + 2 x (wave - 1)) hostiles for the wave the game is
\* in.
C33_PopulationBound ==
    Len(game.enemies) <= 2 * (3 + 2 * (game.wave - 1))

\* C33 happens: wave 1 holds its 6 hostiles; the last frame killed none, its
\* spawn timer had reached the spawn interval and it has spawned none
C33_Witness ==
    /\ Ticked
    /\ game.state = "playing"
    /\ game.wave = 1
    /\ Len(game.enemies) = 6
    /\ hist.last.kills = <<>>
    /\ hist.last.gate.timer >= hist.last.gate.rate
    /\ ~hist.last.spawned

\* C34: at the end of every frame of a run the score is 10 times the number
\* of hostiles killed plus pickups collected in the run, and the pickups on
\* the field plus the pickups collected are the hostiles killed in the run;
\* the score does not decrease within a run.
C34_ScoreAccounting ==
    /\ [](/\ game.score = 10 * (hist.runKills + hist.runCollected)
          /\ Len(game.xpGems) + hist.runCollected = hist.runKills)
    /\ [][ hist'.restarts = hist.restarts => game'.score >= game.score ]_vars

\* C34 happens: the run has killed two hostiles and collected the pickup of
\* one; the other pickup is on the field and the score is 30
C34_Witness ==
    /\ Ticked
    /\ hist.runKills = 2
    /\ hist.runCollected = 1
    /\ Len(game.xpGems) = 1
    /\ game.score = 30

\* C35: the hp of the player are a multiple of 10 in 0..100 in every state;
\* within a run they do not increase, and a frame takes at most 10 of them
\* however many hostiles touch the player; they are 0 exactly when the state
\* is gameover, and a frame ends the run exactly when it leaves 0 hp.
C35_HpDomain ==
    /\ [](/\ game.player.hp \in {10 * k : k \in 0..10}
          /\ game.player.hp = 0 <=> game.state = "gameover")
    /\ [][ /\ hist'.restarts = hist.restarts =>
                  /\ game'.player.hp <= game.player.hp
                  /\ game'.player.hp >= game.player.hp - 10
           /\ TickRan => (hist'.last.ended <=> game'.player.hp = 0)
         ]_vars

\* C35 happens: in a frame two hostiles have touched the player, who had 10
\* hp and was not invincible; the frame has taken the 10 hp and has ended
\* the run
C35_Witness ==
    /\ Ticked
    /\ game.state = "gameover"
    /\ hist.last.ended
    /\ hist.last.hp0 = 10
    /\ game.player.hp = 0
    /\ Cardinality({i \in 1..Len(hist.last.moved.enemies) :
                        Touches(hist.last.moved.player.x, hist.last.moved.player.y,
                                hist.last.moved.enemies[i])}) >= 2

\* C36: a frame takes the wave up by at most 1, whatever its dt; it does so
\* exactly when the wave timer plus dt reaches WAVE_DURATION, and the wave
\* timer is then 0, what went beyond the wave duration being dropped;
\* otherwise the wave timer has advanced by dt.  The wave timer is in
\* [0, WAVE_DURATION) in every state.
C36_WaveStep ==
    /\ [](game.waveTimer >= 0 /\ game.waveTimer < WAVE_DURATION)
    /\ [][ (game.state = "playing" /\ TickRan) =>
               IF game.waveTimer + hist'.last.dt >= WAVE_DURATION
               THEN /\ game'.wave = game.wave + 1
                    /\ game'.waveTimer = 0
                    /\ hist'.last.rolled
               ELSE /\ game'.wave = game.wave
                    /\ game'.waveTimer = game.waveTimer + hist'.last.dt
                    /\ ~hist'.last.rolled
         ]_vars

\* C36 happens: frames of 19 s and 19 s; the second one has taken the wave
\* from 1 to 2 and has dropped the 18 s beyond the wave duration
C36_Witness ==
    /\ Ticked
    /\ hist.last.rolled
    /\ hist.last.dt = 19000
    /\ hist.last.pre.waveTimer = 19000
    /\ game.wave = 2
    /\ game.waveTimer = 0

\* C37: a pickup that a kill of a frame has dropped is not collected by that
\* frame, even within 1.5 of the player on both axes: the frame does not
\* remove it, and collects, and adds to the score, only pickups it began
\* with.  The frame after is the first one that can collect it.
C37_PickupDelay ==
    Ticked =>
        /\ \A m \in SeqRange(hist.last.gemsSpawned) : m.id \notin hist.last.removed
        /\ hist.last.collected =
               Cardinality({k \in 1..Len(hist.last.pre.gems) :
                               Collects(hist.last.moved.player.x,
                                        hist.last.moved.player.y,
                                        hist.last.pre.gems[k])})
        /\ hist.last.score1 =
               hist.last.score0 + KILL_REWARD * Len(hist.last.kills)
                   + GEM_VALUE * hist.last.collected

\* C37 happens: the frame before the last one dropped a pickup within 1.5 of
\* the player and left it on the field; the last frame has collected it
C37_Witness ==
    /\ Ticked
    /\ hist.last.collected = 1
    /\ \E m \in SeqRange(hist.last.pre.born) :
           /\ Collects(hist.last.pre.bornAt.x, hist.last.pre.bornAt.y, m)
           /\ m.id \in Ids(hist.last.pre.gems)
           /\ m.id \in hist.last.removed

\* C38: after any sequence of minimize, maximize, restore, close,
\* toggleMinimize and toggleMaximize the window is not both minimised and
\* maximised; after restore it is neither, after close it is minimised and
\* not maximised, and no drag starts while the window is maximised.
C38_WindowState ==
    /\ [](/\ ~(dom.win.isMinimized /\ dom.win.isMaximized)
          /\ hist.winOp = "restore" =>
                 ~dom.win.isMinimized /\ ~dom.win.isMaximized
          /\ hist.winOp = "close" =>
                 dom.win.isMinimized /\ ~dom.win.isMaximized)
    /\ [][ dom.win.isMaximized => (dom'.win.isDragging => dom.win.isDragging) ]_vars

\* C38 happens: the window has been maximised and then closed with the game
\* playing; it is minimised and not maximised, and the game is idle
C38_Witness ==
    /\ hist.winOp = "close"
    /\ hist.destroyedIn = "playing"
    /\ game.state = "idle"
    /\ dom.win.isMinimized
    /\ ~dom.win.isMaximized

\* C39: whenever the game state is playing the starfield animation is stopped,
\* and the starfield never has more than one animation frame pending.
C39_AsStated ==
    /\ game.state = "playing" => ~dom.stars.isAnimating
    /\ Cardinality(dom.stars.frames) <= 1

\* the number of filled segments of a bar
Filled(bar) == Cardinality({i \in 1..Len(bar) : bar[i] = "full"})

\* a bar of 10 segments, the filled ones first
WellFormed(bar) ==
    /\ Len(bar) = 10
    /\ Filled(bar) \in 0..10
    /\ \A i \in 1..10 : bar[i] = IF i <= Filled(bar) THEN "full" ELSE "empty"

\* C19: no HUD publish fails and the hp bar is always one of 10 segments,
\* the filled ones first; until the run ends the HUD shows the wave and the
\* score of the game and ceil(hp / 100 * 10) filled segments, the hp being
\* between 1 and 100 at every publish; the frame that ends a run publishes
\* nothing, and the HUD keeps what the frame before has published.
C19_Hud ==
    /\ [](~dom.failed /\ WellFormed(dom.hud.hp))
    /\ [](game.state # "gameover" =>
              /\ game.player.hp \in 1..100
              /\ dom.hud.wave = game.wave
              /\ dom.hud.score = game.score
              /\ Filled(dom.hud.hp) * 10 >= game.player.hp
              /\ (Filled(dom.hud.hp) - 1) * 10 < game.player.hp)
    /\ [][ /\ (TickRan /\ hist'.last.ended) => dom'.hud = dom.hud
           /\ (TickRan /\ ~hist'.last.ended) =>
                  /\ hist'.last.phases[11] = "hud"
                  /\ dom'.hud.wave = game'.wave
                  /\ dom'.hud.score = game'.score
         ]_vars

\* C19 happens: a frame in which the player lost hp and earned a score has
\* published wave 1, 30 points and a bar of 9 filled segments and 1 empty
C19_Witness ==
    /\ hist.ticks > 0
    /\ hist.last.hp0 = 100
    /\ game.player.hp = 90
    /\ game.score = 30
    /\ dom.hud.wave = 1
    /\ dom.hud.score = 30
    /\ dom.hud.hp = <<"full", "full", "full", "full", "full", "full", "full", "full",
                      "full", "empty">>

\* the hits of frame L that projectile q made, as indices of L.hits
HitsBy(L, q) == {n \in 1..Len(L.hits) : L.hits[n].by = q.id}

\* the hostiles that the projectiles before the j-th one have killed in
\* frame L
DeadBefore(L, j) ==
    {L.hits[n].id : n \in {m \in 1..Len(L.hits) :
                               /\ L.hits[m].hp1 <= 0
                               /\ \E k \in 1..(j - 1) :
                                      L.moved.projectiles[k].id = L.hits[m].by}}

\* the hostiles, as indices of the set, that are active and in reach of the
\* j-th projectile of frame L when its turn comes in the Projectile x
\* Hostile check
Overlapped(L, j) ==
    {i \in 1..Len(L.atCheck) :
        /\ L.atCheck[i].active
        /\ L.atCheck[i].id \notin DeadBefore(L, j)
        /\ Touches(L.moved.projectiles[j].x, L.moved.projectiles[j].y, L.atCheck[i])}

\* the j-th projectile of frame L hits the first hostile it overlaps, and
\* only that one
HitsFirst(L, j) ==
    /\ Cardinality(HitsBy(L, L.moved.projectiles[j])) = 1
    /\ \A n \in HitsBy(L, L.moved.projectiles[j]) :
           /\ L.hits[n].id = L.atCheck[FirstOf(Overlapped(L, j))].id
           /\ L.hits[n].hp1 = L.hits[n].hp0 - 1

\* C20: no projectile hits twice in a run. In a frame, a projectile that
\* the movement has deactivated hits nothing; one that is active and
\* overlaps a hostile that is active when its turn comes hits the first
\* such hostile in the order of the set, whose hp fall by 1, and no other,
\* and is removed in that frame; one that overlaps none hits nothing; no
\* hostile is hit twice, and a hostile that no projectile has hit is in
\* the set after the frame where the check found it, with its hp.
C20_SingleHit ==
    /\ [](NoDuplicates(hist.hitLog))
    /\ [][TickRan =>
            /\ \A j \in 1..Len(hist'.last.moved.projectiles) :
                   IF /\ hist'.last.moved.projectiles[j].active
                      /\ Overlapped(hist'.last, j) # {}
                   THEN /\ HitsFirst(hist'.last, j)
                        /\ hist'.last.moved.projectiles[j].id \in hist'.last.removed
                        /\ hist'.last.moved.projectiles[j].id \notin Ids(game'.projectiles)
                   ELSE HitsBy(hist'.last, hist'.last.moved.projectiles[j]) = {}
            /\ \A n \in 1..Len(hist'.last.hits) :
                   /\ \E q \in SeqRange(hist'.last.moved.projectiles) :
                          q.active /\ q.id = hist'.last.hits[n].by
                   /\ \A m \in 1..Len(hist'.last.hits) :
                          hist'.last.hits[m].id = hist'.last.hits[n].id => m = n
            /\ \A e \in SeqRange(hist'.last.atCheck) :
                   (e.active /\ \A n \in 1..Len(hist'.last.hits) : hist'.last.hits[n].id # e.id)
                       => \E f \in SeqRange(game'.enemies) :
                              /\ f.id = e.id /\ f.x = e.x /\ f.y = e.y
                              /\ f.active /\ f.hp = 1
       ]_vars

\* C20 happens: in the last frame a projectile overlapped two active
\* hostiles, hit the first of them and left the second one in the set,
\* and a projectile that the movement had deactivated overlapped an active
\* hostile and hit nothing
C20_Witness ==
    /\ Ticked
    /\ game.state = "playing"
    /\ Len(hist.last.hits) = 1
    /\ \E j \in 1..Len(hist.last.moved.projectiles) :
           /\ hist.last.moved.projectiles[j].active
           /\ Cardinality(Overlapped(hist.last, j)) = 2
           /\ HitsFirst(hist.last, j)
           /\ \E i \in Overlapped(hist.last, j) :
                  /\ i # FirstOf(Overlapped(hist.last, j))
                  /\ \E f \in SeqRange(game.enemies) :
                         f.id = hist.last.atCheck[i].id /\ f.active /\ f.hp = 1
    /\ \E j \in 1..Len(hist.last.moved.projectiles) :
           /\ ~hist.last.moved.projectiles[j].active
           /\ Overlapped(hist.last, j) # {}
           /\ HitsBy(hist.last, hist.last.moved.projectiles[j]) = {}

(***************************************************************************)
(* Properties of the pages with absent elements (SpecAbsent).              *)
(***************************************************************************)
\* C16: no operation fails where an element is absent: no method throws,
\* the outputs that do not exist are never written, the ones that exist
\* show what the last publish wrote, and a game that is playing has its
\* next frame requested.
C16_AsStated ==
    /\ ~dom.failed
    /\ ~dom.present.canvas => dom.surface = {}
    /\ ~dom.present.hudWave => dom.hud.wave = 0
    /\ ~dom.present.hudScore => dom.hud.score = 0
    /\ ~dom.present.hudHp => dom.hud.hp = <<>>
    /\ ~dom.present.gameOver => ~dom.gameOverOverlay.active
    /\ ~(dom.present.gameOver /\ dom.present.stats) =>
           (dom.gameOverOverlay.wave = 0 /\ dom.gameOverOverlay.score = 0)
    /\ ~dom.present.pause => ~dom.pauseOverlay
    /\ game.state = "playing" => Cardinality(dom.raf) = 1
    /\ game.state = "gameover" => hist.last.ended

=============================================================================
